---- MODULE Spec2Model ----
(***************************************************************************)
(* A model of the biothings hub orchestration core:                        *)
(*   biothings/utils/manager.py     BaseManager, track/do_work, JobManager *)
(*   biothings/utils/hub.py         _and, the console session              *)
(*   biothings/databuild/builder.py DataBuilder, merger_worker             *)
(* Strings are sequences of one-character strings, so that str.split, the  *)
(* "^%s$" formatting and regular-expression matching are computed.         *)
(***************************************************************************)
EXTENDS Integers, Sequences, FiniteSets, TLC

VARIABLES
    mgr_register,   \* BaseManager.register: key -> list of registered objects
    mgr_query,      \* the src_name of the last __getitem__ call
    mgr_result,     \* what that call returned or raised
    res_cols,       \* src_db.collection_names(): the live staging collections
    res_sources,    \* the sources argument of resolve_sources
    res_found,      \* what resolve_sources returned or raised
    and_funcs,      \* per chain: the functions passed to the outermost _and
    and_calls,      \* per chain: one frame per _and call, in call order
    trk_job,        \* per unit of work dispatched through do_work: its progress
    trk_run,        \* config.RUN_DIR: file name -> pickled descriptor
    trk_done,       \* config.RUN_DIR/done: file name -> pickled descriptor
    cfg_build,      \* the "build" list of the build configuration document
    cfg_haskey,     \* whether that document has a "build" key at all
    cfg_origin,     \* per entry of cfg_build: the build start that pushed it
    cfg_starts,     \* register_status calls with init=True that pushed an entry
    now,            \* datetime.now(), counted in register_status calls
    m_root,         \* build_config[doc_root_key]: the root document sources
    m_req,          \* the sources argument of DataBuilder.merge
    m_unmapped,     \* the sources whose id_type has no mapper
    m_pc,           \* where the merge is: merge(), merge_sources, store_stats
    m_run,          \* merge calls so far
    m_srcs,         \* the resolved source list of the current merge
    m_task,         \* per source: the state of its merge_source task
    m_unit,         \* per batch of a source: the state of its merger_worker unit
    m_target,       \* the target collection: _id -> document
    m_stats,        \* self.stats
    m_statuslog,    \* the statuses the current merge has registered
    m_raised,       \* the steps of the current merge that raised
    m_snap,         \* the target as the first complete merge left it
    m_steps,        \* the steps of the current merge call, in the order they ran
    cln_cols,       \* target_db.collection_names() before clean_temp_collections
    cln_args,       \* build_name, date and prefix of the call
    cln_result,     \* what the call raised and the collections it left
    syn_confs,      \* the _ids of the documents of the src_build collection
    syn_register,   \* BuilderManager.register: build name -> deferred factory
    syn_last,       \* the last operation on the manager or the collection
    pub_manifest,   \* the versions.json object of the S3 bucket
    pub_latest,     \* the latest.json object: its content and its redirect
    pub_start,      \* what versions.json held at first
    pub_published,  \* the versions published since, a list publish starting afresh
    pub_last,       \* the last publish_data_version call and the manifest before it
    prp_bdr,        \* one DataBuilder: _state, prepared, what it has called so far
    prp_has_root,   \* whether the build configuration holds the root document key
    prp_token,      \* the state the last unprepare() returned
    prp_last,       \* the last operation on the builder
    prp_prev,       \* the builder before that operation
    prp_ops,        \* operations so far
    prp_unprepared, \* whether unprepare() has been called
    con_script,     \* what the operator of each session types
    con_pos,        \* how much of it has reached the session
    con_input,      \* _input of each session
    con_closed,     \* whether an exception ended the session
    con_breaks,     \* break signals so far
    con_jobs,       \* HubSSHServerSession.running_jobs
    con_cnt,        \* HubSSHServerSession.job_cnt
    con_regs,       \* the ids of the registered records, in registration order
    con_stream,     \* what each session has received so far
    con_processed,  \* the lines each session has processed so far
    con_last,       \* the last data_received call: its lines and its status report
    reg_sources,    \* the sources list given to register_sources
    reg_register,   \* the registry of the source manager
    reg_done,       \* whether register_sources has run
    bm_register,    \* the registry of one BuilderManager
    bm_env,         \* whether the manager has backend factories and a loop, and the configurations a sources key
    bm_objs,        \* builders and backends made so far
    bm_ops,         \* lookups and merge calls so far
    bm_last,        \* the last lookup or merge call and its outcome
    bm_prev,        \* the call before it
    ovl_pc,         \* where each of the builders merging one configuration is
    ovl_start,      \* the number of the history entry each builder appended
    tgt_attr,       \* the target_name attribute of a builder
    tgt_name,       \* the name its target backend writes to
    tgt_cols,       \* the collections of the target database and what their documents hold
    tgt_calls,      \* merge calls on the builder so far
    tgt_log         \* the merge calls in order: arguments, what each dropped, where its units wrote

mgrVars == <<mgr_register, mgr_query, mgr_result>>

resVars == <<res_cols, res_sources, res_found>>

andVars == <<and_funcs, and_calls>>
trkVars == <<trk_job, trk_run, trk_done>>
cfgVars == <<cfg_build, cfg_haskey, cfg_origin, cfg_starts, now>>
mInputs == <<m_root, m_req, m_unmapped>>
mVars == <<m_root, m_req, m_unmapped, m_pc, m_run, m_srcs, m_task, m_unit, m_target,
           m_stats, m_statuslog, m_raised, m_snap, m_steps>>

clnVars == <<cln_cols, cln_args, cln_result>>

synVars == <<syn_confs, syn_register, syn_last>>

pubVars == <<pub_manifest, pub_latest, pub_start, pub_published, pub_last>>

prpVars == <<prp_bdr, prp_has_root, prp_token, prp_last, prp_prev, prp_ops, prp_unprepared>>

conVars == <<con_script, con_pos, con_input, con_closed, con_breaks, con_jobs, con_cnt, con_regs, con_stream, con_processed, con_last>>

regVars == <<reg_sources, reg_register, reg_done>>

bmVars == <<bm_register, bm_env, bm_objs, bm_ops, bm_last, bm_prev>>

ovlVars == <<ovl_pc, ovl_start>>

tgtVars == <<tgt_attr, tgt_name, tgt_cols, tgt_calls, tgt_log>>

\* the groups of the first and of the second half of the model
oldVars == <<mgrVars, resVars, andVars, trkVars, cfgVars, mVars>>
restVars == <<clnVars, synVars, pubVars, prpVars, conVars, regVars, bmVars, ovlVars, tgtVars>>
clnOthers == <<oldVars, synVars, pubVars, prpVars, conVars, regVars, bmVars, ovlVars, tgtVars>>
synOthers == <<oldVars, clnVars, pubVars, prpVars, conVars, regVars, bmVars, ovlVars, tgtVars>>
pubOthers == <<oldVars, clnVars, synVars, prpVars, conVars, regVars, bmVars, ovlVars, tgtVars>>
prpOthers == <<oldVars, clnVars, synVars, pubVars, conVars, regVars, bmVars, ovlVars, tgtVars>>
conOthers == <<oldVars, clnVars, synVars, pubVars, prpVars, regVars, bmVars, ovlVars, tgtVars>>
regOthers == <<oldVars, clnVars, synVars, pubVars, prpVars, conVars, bmVars, ovlVars, tgtVars>>
bmOthers == <<oldVars, clnVars, synVars, pubVars, prpVars, conVars, regVars, ovlVars, tgtVars>>
ovlOthers == <<oldVars, clnVars, synVars, pubVars, prpVars, conVars, regVars, bmVars, tgtVars>>
tgtOthers == <<oldVars, clnVars, synVars, pubVars, prpVars, conVars, regVars, bmVars, ovlVars>>

vars == <<mgr_register, mgr_query, mgr_result, res_cols, res_sources, res_found,
          and_funcs, and_calls, trk_job, trk_run, trk_done,
          cfg_build, cfg_haskey, cfg_origin, cfg_starts, now,
          m_root, m_req, m_unmapped, m_pc, m_run, m_srcs, m_task, m_unit, m_target,
          m_stats, m_statuslog, m_raised, m_snap, m_steps,
          cln_cols, cln_args, cln_result,
          syn_confs, syn_register, syn_last,
          pub_manifest, pub_latest, pub_start, pub_published, pub_last,
          prp_bdr, prp_has_root, prp_token, prp_last, prp_prev, prp_ops, prp_unprepared,
          con_script, con_pos, con_input, con_closed, con_breaks, con_jobs, con_cnt, con_regs, con_stream, con_processed, con_last,
          reg_sources, reg_register, reg_done,
          bm_register, bm_env, bm_objs, bm_ops, bm_last, bm_prev,
          ovl_pc, ovl_start,
          tgt_attr, tgt_name, tgt_cols, tgt_calls, tgt_log>>

(***************************************************************************)
(* Python helpers                                                          *)
(***************************************************************************)

\* the position of the first occurrence of c in s, 0 when there is none
RECURSIVE IndexFrom(_, _, _)
IndexFrom(s, c, i) ==
    IF i > Len(s) THEN 0
    ELSE IF s[i] = c THEN i
    ELSE IndexFrom(s, c, i + 1)

\* str.split(sep) for a one-character separator: "a.b" -> ["a", "b"], "" -> [""]
RECURSIVE Split(_, _)
Split(s, sep) ==
    LET k == IndexFrom(s, sep, 1) IN
    IF k = 0 THEN <<s>>
    ELSE <<SubSeq(s, 1, k - 1)>> \o Split(SubSeq(s, k + 1, Len(s)), sep)

\* the elements of a list
Range(f) == {f[i] : i \in DOMAIN f}

\* every sequence over S of length lo..hi
SeqsOf(S, lo, hi) == UNION {[1..n -> S] : n \in lo..hi}


(***************************************************************************)
(* Regular expressions as re.compile / pattern.match treat them: literals, *)
(* ".", a postfix "*", top-level "|", "^" and "$"                          *)
(***************************************************************************)

\* one alternative, as a list of atoms each with its repeat flag
RECURSIVE ParseAlt(_)
ParseAlt(s) ==
    IF Len(s) = 0 THEN <<>>
    ELSE LET starred == Len(s) >= 2 /\ s[2] = "*" IN
         <<[a |-> s[1], star |-> starred]>>
             \o ParseAlt(SubSeq(s, IF starred THEN 3 ELSE 2, Len(s)))

\* re.error: "nothing to repeat" (a "*" first or after an anchor), "multiple repeat"
AltIsValid(items) ==
    \A i \in 1..Len(items) :
        /\ items[i].a # "*"
        /\ items[i].star => items[i].a \notin {"^", "$"}

AtomMatches(a, ch) == a = "." \/ a = ch

\* whether items[i..] match s from position pos on, ending anywhere
RECURSIVE MatchItems(_, _, _, _)
MatchItems(items, i, s, pos) ==
    IF i > Len(items) THEN TRUE
    ELSE LET it == items[i] IN
         IF it.a = "^" THEN pos = 1 /\ MatchItems(items, i + 1, s, pos)
         ELSE IF it.a = "$" THEN pos = Len(s) + 1 /\ MatchItems(items, i + 1, s, pos)
         ELSE IF it.star
              THEN \E k \in pos..(Len(s) + 1) :
                      /\ \A j \in pos..(k - 1) : AtomMatches(it.a, s[j])
                      /\ MatchItems(items, i + 1, s, k)
              ELSE /\ pos <= Len(s)
                   /\ AtomMatches(it.a, s[pos])
                   /\ MatchItems(items, i + 1, s, pos + 1)

\* re.compile(text): the alternatives of the pattern, "|" binding loosest
Compile(text) ==
    LET parts == Split(text, "|") IN [i \in 1..Len(parts) |-> ParseAlt(parts[i])]

CompileFails(text) == \E i \in DOMAIN Compile(text) : ~AltIsValid(Compile(text)[i])

\* pat.match(s): some alternative matches at the start of s
PatMatch(pat, s) == \E i \in DOMAIN pat : MatchItems(pat[i], 1, s, 1)

(***************************************************************************)
(* DataBuilder.resolve_sources  (databuild/builder.py)                     *)
(***************************************************************************)

MaxPatLen == 3      \* characters of a source name or pattern
MaxSources == 2     \* entries of a sources list
MaxNameLen == 2     \* characters of a collection name
MaxCols == 2        \* live staging collections

PatChars == {"a", ".", "*", "|"}
NameChars == {"a", "b"}
ResPatterns == SeqsOf(PatChars, 1, MaxPatLen)
ResNames == SeqsOf(NameChars, 1, MaxNameLen)

\* "^%s$" % src
AnchoredText(src) == <<"^">> \o src \o <<"$">>

\* the inner loop: the collections, in listing order, that pat matches
ColsMatching(src, cols) ==
    SelectSeq(cols, LAMBDA col : PatMatch(Compile(AnchoredText(src)), col))

RECURSIVE FoundFrom(_, _, _)
FoundFrom(sources, i, cols) ==
    IF i > Len(sources) THEN <<>>
    ELSE ColsMatching(sources[i], cols) \o FoundFrom(sources, i + 1, cols)

\* sources is a str (wrapped into a one-element list) or a list
ResolveSources(sources, cols) ==
    LET srcs == IF sources.isstr THEN <<sources.str>> ELSE sources.list IN
    IF \E i \in DOMAIN srcs : CompileFails(AnchoredText(srcs[i]))
    THEN [status |-> "re.error", found |-> <<>>]
    ELSE [status |-> "ok", found |-> FoundFrom(srcs, 1, cols)]

ResNoResult == [status |-> "none", found |-> <<>>]

ResArgs ==
    {[isstr |-> TRUE, str |-> p, list |-> <<>>] : p \in ResPatterns}
        \cup {[isstr |-> FALSE, str |-> <<>>, list |-> l] :
                l \in SeqsOf(ResPatterns, 1, MaxSources)}

ResColLists ==
    {l \in SeqsOf(ResNames, 0, MaxCols) : \A i, j \in DOMAIN l : i # j => l[i] # l[j]}

ResIdle ==
    /\ res_cols = <<>>
    /\ res_sources = [isstr |-> FALSE, str |-> <<>>, list |-> <<>>]
    /\ res_found = ResNoResult

ResInit ==
    /\ res_cols \in ResColLists
    /\ res_sources \in ResArgs
    /\ res_found = ResNoResult

ResResolve ==
    /\ res_found.status = "none"
    /\ res_found' = ResolveSources(res_sources, res_cols)
    /\ UNCHANGED <<res_cols, res_sources>>
    /\ UNCHANGED <<mgrVars, andVars, trkVars, cfgVars, mVars, restVars>>

(***************************************************************************)
(* BaseManager.__getitem__  (utils/manager.py)                             *)
(***************************************************************************)

MaxSubs == 2        \* registered objects per main key
MaxKeyLen == 3      \* characters of a looked-up name

MgrChars == {"m", "n", "s", "."}
MgrMains == {<<"m">>, <<"n">>}
MgrSubNames == {<<"s">>, <<"n">>}

\* the list registered under main: classes with a .name attribute
MgrObjects(main) ==
    {[i \in 1..Len(ns) |-> [name |-> ns[i], main |-> main, idx |-> i]] :
        ns \in SeqsOf(MgrSubNames, 1, MaxSubs)}

\* the registries a subclass's register_classes can have built
MgrRegistries ==
    UNION {{f \in [D -> UNION {MgrObjects(m) : m \in MgrMains}] :
                \A d \in D : f[d] \in MgrObjects(d)} : D \in SUBSET MgrMains}

MgrNoResult == [status |-> "none", kind |-> "none", value |-> <<>>]
MgrKeyError == [status |-> "KeyError", kind |-> "none", value |-> <<>>]

\* kind "entry": the registered value itself; kind "list": the list res built by
\* the sub-source branch
GetItem(register, src_name) ==
    IF src_name \in DOMAIN register
    THEN [status |-> "ok", kind |-> "entry", value |-> register[src_name]]
    ELSE LET parts == Split(src_name, ".") IN
         IF Len(parts) # 2 THEN MgrKeyError            \* ValueError on unpacking
         ELSE LET main == parts[1]
                  sub == parts[2]
              IN IF main \notin DOMAIN register THEN MgrKeyError
                 ELSE LET res == SelectSeq(register[main], LAMBDA src : src.name = sub)
                      IN IF Len(res) = 0 THEN MgrKeyError
                         ELSE [status |-> "ok", kind |-> "list", value |-> res]

MgrIdle ==
    /\ mgr_register = <<>>
    /\ mgr_query = <<>>
    /\ mgr_result = MgrNoResult

MgrInit ==
    /\ mgr_register \in MgrRegistries
    /\ mgr_query = <<>>
    /\ mgr_result = MgrNoResult

MgrLookup(src_name) ==
    /\ mgr_query' = src_name
    /\ mgr_result' = GetItem(mgr_register, src_name)
    /\ UNCHANGED mgr_register
    /\ UNCHANGED <<resVars, andVars, trkVars, cfgVars, mVars, restVars>>

MgrNext == \E src_name \in SeqsOf(MgrChars, 1, MaxKeyLen) : MgrLookup(src_name)

(***************************************************************************)
(* _and  (utils/hub.py): chained commands                                  *)
(***************************************************************************)

NumChains == 2      \* chains running at the same time
MaxChain == 3       \* functions of one chain

Chains == 1..NumChains

\* One _and(*funcs) call up to its return: func1 is invoked and its handle h
\* (pending) is the only element of all_res; cb and rest are what the closure
\* do() will see: func2 (0 for None) and the rebound funcs.
AndCall(funcs, h) ==
    [func |-> funcs[1],
     handle |-> h,
     st |-> "pending",
     cbrun |-> FALSE,
     all_res |-> <<h>>,
     cb |-> IF Len(funcs) > 1 THEN funcs[2] ELSE 0,
     rest |-> IF Len(funcs) > 2 THEN SubSeq(funcs, 3, Len(funcs)) ELSE <<>>]

\* do(): res = f.result() returns only when the handle did not raise
DoIgnoresResult(st) == TRUE
DoConsumesResult(st) == st = "ok"

\* do(f, cb): the done callback of the handle of frame j
DoCallback(calls, j) ==
    LET fr == calls[j] IN
    IF DoConsumesResult(fr.st) /\ fr.cb # 0
    THEN LET inner == AndCall(<<fr.cb>> \o fr.rest, Len(calls) + 1) IN
         Append([calls EXCEPT ![j].cbrun = TRUE,
                              ![j].all_res = fr.all_res \o inner.all_res],
                inner)
    ELSE [calls EXCEPT ![j].cbrun = TRUE]

AndIdle ==
    /\ and_funcs = [c \in Chains |-> <<>>]
    /\ and_calls = [c \in Chains |-> <<>>]

\* the console evaluates _and(f1, ..., fn)
AndSubmit(c, n) ==
    /\ and_funcs[c] = <<>>
    /\ and_funcs' = [and_funcs EXCEPT ![c] = [i \in 1..n |-> i]]
    /\ and_calls' = [and_calls EXCEPT ![c] = <<AndCall([i \in 1..n |-> i], 1)>>]
    /\ UNCHANGED <<mgrVars, resVars, trkVars, cfgVars, mVars, restVars>>

\* the task behind a handle ends, with a result or an exception
AndSettle(c, j, outcome) ==
    /\ j \in DOMAIN and_calls[c]
    /\ and_calls[c][j].st = "pending"
    /\ and_calls' = [and_calls EXCEPT ![c][j].st = outcome]
    /\ UNCHANGED and_funcs
    /\ UNCHANGED <<mgrVars, resVars, trkVars, cfgVars, mVars, restVars>>

\* the event loop runs the done callback of a settled handle
AndDo(c, j) ==
    /\ j \in DOMAIN and_calls[c]
    /\ and_calls[c][j].st # "pending"
    /\ ~and_calls[c][j].cbrun
    /\ Len(and_calls[c]) <= MaxChain
    /\ and_calls' = [and_calls EXCEPT ![c] = DoCallback(and_calls[c], j)]
    /\ UNCHANGED and_funcs
    /\ UNCHANGED <<mgrVars, resVars, trkVars, cfgVars, mVars, restVars>>

AndNext ==
    \E c \in Chains :
        \/ \E n \in 1..MaxChain : AndSubmit(c, n)
        \/ \E j \in 1..(MaxChain + 1), outcome \in {"ok", "err"} : AndSettle(c, j, outcome)
        \/ \E j \in 1..(MaxChain + 1) : AndDo(c, j)

(***************************************************************************)
(* track, do_work, JobManager.defer_to_process / defer_to_thread           *)
(* (utils/manager.py)                                                      *)
(***************************************************************************)

NumJobs == 3        \* units of work dispatched
NumSlots == 1       \* workers of each pool

TrkJobs == 1..NumJobs
TrkPools == {"process", "thread"}
TrkTokens == {"x", "y"}     \* what get_random_string() may return

TrkNoFile == <<>>
TrkNew == [phase |-> "new", ptype |-> "none", fn |-> TrkNoFile,
           outcome |-> "none", result |-> "none"]

\* fn = "%s_%s" % (_id, rnd), _id the pid (process) or the thread name (thread)
PidFileName(ptype, slot, rnd) == <<ptype, slot, rnd>>

\* the descriptor pickled before the call: worker, with info.id set
Descriptor(j, ptype, slot) == [job |-> j, id |-> <<ptype, slot>>, duration |-> "unset"]

\* the slot of a pool is taken from the wrapper's start to its return
SlotBusy(ptype, slot) ==
    \E k \in TrkJobs :
        /\ trk_job[k].phase \in {"exec", "moved"}
        /\ trk_job[k].fn[1] = ptype
        /\ trk_job[k].fn[2] = slot

\* a directory without the file fn
WithoutFile(dir, fn) == [f \in DOMAIN dir \ {fn} |-> dir[f]]

\* finally: if os.path.exists(pidfile): os.rename(pidfile, done/basename)
TrackRenameOnSuccess(run, done, fn, outcome) ==
    IF fn \in DOMAIN run /\ outcome = "ok"
    THEN [run |-> WithoutFile(run, fn), done |-> (fn :> run[fn]) @@ done]
    ELSE [run |-> run, done |-> done]
TrackRename(run, done, fn, outcome) ==
    IF fn \in DOMAIN run
    THEN [run |-> WithoutFile(run, fn), done |-> (fn :> run[fn]) @@ done]
    ELSE [run |-> run, done |-> done]

\* how a call of func ends: it returns a value or None, raises an Exception,
\* or raises a BaseException that is no Exception (SystemExit,
\* KeyboardInterrupt, CancelledError)
Outcomes == {"ok", "none", "raise", "exit"}

WrapperRaises(outcome) ==
    IF outcome = "ok" THEN "value" ELSE IF outcome = "none" THEN "None" ELSE "exception"
\* results = None; try: results = func(*args, **kwargs); except Exception: the
\* error is logged; finally: ...; return results. What except Exception does
\* not catch leaves the wrapper after the finally block
WrapperResults(outcome) ==
    IF outcome = "ok" THEN "value"              \* func returned a value
    ELSE IF outcome = "none" THEN "None"        \* func returned None
    ELSE IF outcome = "raise" THEN "None"       \* caught: results is still None
    ELSE "exception"                            \* not caught: the handle carries it

\* worker = pickle.load(done file); worker["duration"] = timesofar(...); pickle.dump
TrackRewrite(done, fn) == [done EXCEPT ![fn].duration = "set"]

TrkIdle ==
    /\ trk_job = [j \in TrkJobs |-> TrkNew]
    /\ trk_run = <<>>
    /\ trk_done = <<>>

\* defer_to_process / defer_to_thread: run_in_executor(queue, partial(do_work, ptype, ...))
TrkDefer(j, ptype) ==
    /\ trk_job[j].phase = "new"
    /\ trk_job' = [trk_job EXCEPT ![j].phase = "queued", ![j].ptype = ptype]
    /\ UNCHANGED <<trk_run, trk_done>>
    /\ UNCHANGED <<mgrVars, resVars, andVars, cfgVars, mVars, restVars>>

\* func_wrapper up to the call of func: a free worker of the pool takes the
\* unit and pickles its descriptor under RUN_DIR
TrkBegin(j, slot, rnd) ==
    /\ trk_job[j].phase = "queued"
    /\ ~SlotBusy(trk_job[j].ptype, slot)
    /\ LET fn == PidFileName(trk_job[j].ptype, slot, rnd) IN
       /\ trk_job' = [trk_job EXCEPT ![j].phase = "exec", ![j].fn = fn]
       /\ trk_run' = (fn :> Descriptor(j, trk_job[j].ptype, slot)) @@ trk_run
    /\ UNCHANGED trk_done
    /\ UNCHANGED <<mgrVars, resVars, andVars, cfgVars, mVars, restVars>>

\* func returns or raises (an Exception is logged); the finally block renames
TrkFuncEnds(j, outcome) ==
    /\ trk_job[j].phase = "exec"
    /\ LET moved == TrackRename(trk_run, trk_done, trk_job[j].fn, outcome) IN
       /\ trk_run' = moved.run
       /\ trk_done' = moved.done
       /\ trk_job' = [trk_job EXCEPT ![j].phase =
                          IF trk_job[j].fn \in DOMAIN moved.done THEN "moved" ELSE "returned",
                                     ![j].outcome = outcome,
                                     ![j].result = WrapperResults(outcome)]
    /\ UNCHANGED <<mgrVars, resVars, andVars, cfgVars, mVars, restVars>>

\* the rest of the finally block, then return results
TrkReturn(j) ==
    /\ trk_job[j].phase = "moved"
    /\ trk_done' = TrackRewrite(trk_done, trk_job[j].fn)
    /\ trk_job' = [trk_job EXCEPT ![j].phase = "returned"]
    /\ UNCHANGED trk_run
    /\ UNCHANGED <<mgrVars, resVars, andVars, cfgVars, mVars, restVars>>

TrkNext ==
    \E j \in TrkJobs :
        \/ \E ptype \in TrkPools : TrkDefer(j, ptype)
        \/ \E slot \in 1..NumSlots, rnd \in TrkTokens : TrkBegin(j, slot, rnd)
        \/ \E outcome \in {"ok", "raise", "exit"} : TrkFuncEnds(j, outcome)
        \/ TrkReturn(j)

(***************************************************************************)
(* DataBuilder.register_status  (databuild/builder.py)                     *)
(***************************************************************************)

max_build_status == 2   \* the constructor's max_build_status
MaxCalls == 4           \* register_status calls in a run of the model

\* dict.update: the keys of new override those of old
DictUpdate(old, new) == new @@ old

\* $pop with -1: the list without its first element
PopFirst(list) == SubSeq(list, 2, Len(list))

RECURSIVE PopFirstTimes(_, _)
PopFirstTimes(list, howmany) ==
    IF howmany = 0 THEN list ELSE PopFirstTimes(PopFirst(list), howmany - 1)

\* build_info before extra is merged in; the "time" of a final state stands for
\* time and time_in_s, target_name for logfile, target_backend and target_name
BuildInfo(status, transient, target_name, t) ==
    ("status" :> status) @@ ("started_at" :> t) @@ ("target_name" :> target_name)
        @@ (IF transient THEN "pid" :> "hub" ELSE "time" :> "elapsed")

\* register_status from _cfg = src_build.find_one(...) on. build is the stored
\* list, extra the value of the build keyword (used when hasExtra). Returns the
\* stored list, whether the key exists, whether an entry was pushed, how many
\* were popped, and whether the call raised.
RegisterStatus(build, haskey, build_info, hasExtra, extra, init) ==
    LET info == IF hasExtra THEN DictUpdate(build_info, extra) ELSE build_info IN
    IF hasExtra /\ (~haskey \/ Len(build) = 0)
    THEN \* _cfg["build"][-1]: KeyError or IndexError, nothing written
         [build |-> build, haskey |-> haskey, pushed |-> FALSE, popped |-> 0, raised |-> TRUE]
    ELSE LET cfg == IF hasExtra
                    THEN [build EXCEPT ![Len(build)] = DictUpdate(build[Len(build)], info)]
                    ELSE build
         IN IF ~init
            THEN [build |-> cfg, haskey |-> haskey, pushed |-> FALSE, popped |-> 0,
                  raised |-> FALSE]
            ELSE IF ~haskey
            THEN \* $push creates the list, then len(_cfg['build']) is a KeyError
                 [build |-> <<info>>, haskey |-> TRUE, pushed |-> TRUE, popped |-> 0,
                  raised |-> TRUE]
            ELSE LET howmany == IF Len(cfg) > max_build_status
                                THEN Len(cfg) - max_build_status ELSE 0
                 IN [build |-> PopFirstTimes(Append(cfg, info), howmany), haskey |-> TRUE,
                     pushed |-> TRUE, popped |-> howmany, raised |-> FALSE]

\* the build payloads DataBuilder passes with each status
ExtraOf(status, sources, stats) ==
    IF status = "building" THEN ("step" :> "init") @@ ("sources" :> sources)
    ELSE IF status = "success" THEN ("stats" :> stats) @@ ("src_versions" :> "versions")
    ELSE "err" :> "repr(e)"

\* the configuration document as the external configuration step leaves it
CfgIdle ==
    /\ cfg_build = <<>>
    /\ cfg_haskey = FALSE
    /\ cfg_origin = <<>>
    /\ cfg_starts = 0
    /\ now = 0

CfgInit ==
    /\ cfg_build = <<>>
    /\ cfg_haskey \in BOOLEAN
    /\ cfg_origin = <<>>
    /\ cfg_starts = 0
    /\ now = 0

\* what a register_status call leaves in the configuration registry
CfgAfter(r) ==
    /\ cfg_build' = r.build
    /\ cfg_haskey' = r.haskey
    /\ cfg_starts' = IF r.pushed THEN cfg_starts + 1 ELSE cfg_starts
    /\ cfg_origin' = PopFirstTimes(IF r.pushed THEN Append(cfg_origin, cfg_starts + 1)
                                   ELSE cfg_origin, r.popped)
    /\ now' = now + 1

\* one register_status(status, transient, init, **extra) call on a prepared builder
HistRegister(status, transient, init, hasExtra) ==
    /\ now < MaxCalls
    /\ CfgAfter(RegisterStatus(cfg_build, cfg_haskey,
                               BuildInfo(status, transient, "target", now + 1),
                               hasExtra, ExtraOf(status, <<>>, <<>>), init))
    /\ UNCHANGED <<mgrVars, resVars, andVars, trkVars, mVars, restVars>>

HistNext ==
    \E status \in {"building", "success", "failed"}, init, hasExtra \in BOOLEAN :
        HistRegister(status, status = "building", init, hasExtra)

(***************************************************************************)
(* DataBuilder.merge, merge_sources, merge_source, store_stats and         *)
(* merger_worker  (databuild/builder.py)                                   *)
(***************************************************************************)

MaxRuns == 2        \* merge calls
batch_size == 1     \* the batch_size of merge: document ids per worker unit

SrcA == <<"a">>
SrcB == <<"b">>
SrcC == <<"c">>

\* src_db.collection_names() and build_config['sources']
MergeCols == <<SrcA, SrcB, SrcC>>
CfgSources == <<SrcA, SrcB, SrcC>>
Sources == Range(MergeCols)

\* the _ids of each staging collection, in iteration order
SrcIds(s) ==
    IF s = SrcA THEN <<1, 2>>
    ELSE IF s = SrcB THEN <<1, 3>>
    ELSE IF s = SrcC THEN <<2>>
    ELSE <<>>

\* the document of a staging collection: a field of its own and, for two of the
\* sources, a field both set
SrcDoc(s, id) ==
    IF s = SrcC THEN ("_id" :> id) @@ (s[1] :> id)
    ELSE ("_id" :> id) @@ (s[1] :> id) @@ ("name" :> s[1])

\* doc_feeder(col, step=batch_size, inbatch=True): the k-th batch of ids
NumBatches(s) == (Len(SrcIds(s)) + batch_size - 1) \div batch_size
BatchIds(s, k) ==
    SubSeq(SrcIds(s), (k - 1) * batch_size + 1,
           IF k * batch_size < Len(SrcIds(s)) THEN k * batch_size ELSE Len(SrcIds(s)))

Units == {<<s, k>> : s \in Sources, k \in 1..2} \cap
         {u \in Sources \X Nat : u[2] \in 1..NumBatches(u[1])}

\* get_root_document_sources()
RootSources == Range(m_root)

\* merge_source: upsert = not roots or src_name in roots
UpsertAlways(src_name) == TRUE
UpsertFlag(src_name) == Len(m_root) = 0 \/ src_name \in RootSources

\* TransparentMapper.process: the documents unchanged
MapperProcess(doc) == doc

\* DocMongoBackend.update for one document: {'$set': doc} on the document with
\* that _id, inserted first when absent and upsert is set
UpdateDoc(target, doc, upsert) ==
    IF doc["_id"] \in DOMAIN target
    THEN [target EXCEPT ![doc["_id"]] = DictUpdate(@, doc)]
    ELSE IF upsert THEN (doc["_id"] :> doc) @@ target
    ELSE target

\* what DocMongoBackend.update counts for one document: 1 when it was written
UpdateCount(target, doc, upsert) ==
    IF doc["_id"] \in DOMAIN target \/ upsert THEN 1 ELSE 0

\* merge_sources: the two phases
RootPhaseSources(source_names) == Range(source_names) \cap RootSources
OtherPhaseSources(source_names) == Range(source_names) \ RootPhaseSources(source_names)

\* yield from asyncio.wait(jobs): every job of the phase is done
PhaseNotAwaited(tasks, phase) == TRUE
PhaseDrained(tasks, phase) == \A s \in phase : tasks[s] \in {"done", "failed"}

NoTask == [s \in Sources |-> "none"]
NoUnit == [u \in Units |-> [st |-> "none", pos |-> 0, upsert |-> FALSE, cnt |-> 0]]
NoSnap == [set |-> FALSE, run |-> 0, target |-> <<>>]

\* merge_source: the key of its result, "total_%s" % src_name
StatsKey(src_name) == <<"t", "o", "t", "a", "l", "_">> \o src_name

MergeRequests ==
    {[kind |-> "none", str |-> <<>>, list |-> <<>>],
     [kind |-> "str", str |-> SrcA, list |-> <<>>],
     [kind |-> "list", str |-> <<>>, list |-> <<SrcB>>],
     [kind |-> "list", str |-> <<>>, list |-> <<SrcA, SrcB>>],
     [kind |-> "list", str |-> <<>>, list |-> <<SrcB, SrcC>>],
     [kind |-> "list", str |-> <<>>, list |-> <<SrcA, SrcC>>],
     [kind |-> "list", str |-> <<>>, list |-> <<SrcA, SrcB, SrcC>>]}

\* an entry an earlier build left in the history
OldEntry ==
    DictUpdate(BuildInfo("success", FALSE, "old_target", 0), ExtraOf("success", <<>>, <<>>))

MergeIdle ==
    /\ m_root = <<>>
    /\ m_req = [kind |-> "none", str |-> <<>>, list |-> <<>>]
    /\ m_unmapped = {}
    /\ m_pc = "idle"
    /\ m_run = 0
    /\ m_srcs = <<>>
    /\ m_task = NoTask
    /\ m_unit = NoUnit
    /\ m_target = <<>>
    /\ m_stats = <<>>
    /\ m_statuslog = <<>>
    /\ m_raised = {}
    /\ m_snap = NoSnap
    /\ m_steps = <<>>

MergeInit ==
    /\ m_root \in {<<>>, <<SrcA>>}
    /\ m_req \in MergeRequests
    /\ m_unmapped \in {{}, {SrcA}, {SrcB}}
    /\ m_pc = "idle"
    /\ m_run = 0
    /\ m_srcs = <<>>
    /\ m_task = NoTask
    /\ m_unit = NoUnit
    /\ m_target = <<>>
    /\ m_stats = <<>>
    /\ m_statuslog = <<>>
    /\ m_raised = {}
    /\ m_snap = NoSnap
    /\ m_steps = <<>>
    /\ cfg_build \in {<<>>, <<OldEntry>>}
    /\ cfg_haskey = TRUE
    /\ cfg_origin = [i \in 1..Len(cfg_build) |-> 0]
    /\ cfg_starts = 0
    /\ now = 0

\* the sources argument as resolve_sources receives it
MergeSourcesArg ==
    IF m_req.kind = "none" THEN [isstr |-> FALSE, str |-> <<>>, list |-> CfgSources]
    ELSE IF m_req.kind = "str" THEN [isstr |-> FALSE, str |-> <<>>, list |-> <<m_req.str>>]
    ELSE [isstr |-> FALSE, str |-> <<>>, list |-> m_req.list]

\* merge_sources up to its first suspension in a phase: one task per source of
\* the phase is scheduled; asyncio.wait raises ValueError on an empty job list
StartPhase(phase, pc) ==
    IF phase = {}
    THEN /\ m_pc' = "job_failed"
         /\ m_raised' = m_raised \cup {"barrier"}
         /\ UNCHANGED m_task
    ELSE /\ m_pc' = pc
         /\ m_task' = [s \in Sources |-> IF s \in phase THEN "scheduled" ELSE m_task[s]]
         /\ UNCHANGED m_raised

DropsAlways(req) == TRUE
\* merge: the target is dropped and prepared if sources is None
DropsTarget(req) == req.kind = "none"

\* DataBuilder.merge, called with target_name=None, up to return job or raise
MergeCall ==
    /\ m_pc \in {"idle", "stored", "raised"}
    /\ m_run < MaxRuns
    /\ LET resolved == ResolveSources(MergeSourcesArg, MergeCols).found
           r1 == RegisterStatus(cfg_build, cfg_haskey,
                                BuildInfo("building", TRUE, "target", now + 1),
                                TRUE, ExtraOf("building", resolved, <<>>), TRUE)
           r2 == RegisterStatus(r1.build, r1.haskey,
                                BuildInfo("failed", FALSE, "target", now + 2),
                                TRUE, ExtraOf("failed", <<>>, <<>>), FALSE)
       IN /\ m_srcs' = resolved
          /\ m_target' = IF DropsTarget(m_req) THEN <<>> ELSE m_target  \* drop(), prepare()
          /\ m_steps' = (IF DropsTarget(m_req) THEN <<"drop", "prepare">> ELSE <<>>)
                            \o (IF r1.raised THEN <<>> ELSE <<"building">>)
          /\ IF r1.raised
             THEN /\ cfg_build' = r2.build
                  /\ cfg_haskey' = r2.haskey
                  /\ now' = now + 2
                  /\ m_statuslog' = IF r2.raised THEN <<>> ELSE <<"failed">>
                  /\ m_raised' = {"status"}
                  /\ m_pc' = "raised"
                  /\ UNCHANGED <<cfg_origin, cfg_starts>>
             ELSE /\ CfgAfter(r1)
                  /\ m_statuslog' = <<"building">>
                  /\ m_raised' = {}
                  /\ m_pc' = "scheduled"
    /\ m_run' = m_run + 1
    /\ m_task' = NoTask
    /\ m_unit' = NoUnit
    /\ UNCHANGED <<m_stats, m_snap, mInputs>>
    /\ UNCHANGED <<mgrVars, resVars, andVars, trkVars, restVars>>

\* the merge_sources task starts: self.stats = {}, the root phase if any root
\* source is requested, else the other phase
MergeSourcesStart ==
    /\ m_pc = "scheduled"
    /\ m_stats' = <<>>
    /\ IF RootPhaseSources(m_srcs) # {}
       THEN StartPhase(RootPhaseSources(m_srcs), "root")
       ELSE StartPhase(OtherPhaseSources(m_srcs), "other")
    /\ UNCHANGED <<m_run, m_srcs, m_unit, m_target, m_statuslog, m_snap, m_steps, mInputs>>
    /\ UNCHANGED <<mgrVars, resVars, andVars, trkVars, cfgVars, restVars>>

\* a merge_source task runs up to its asyncio.wait: every batch is handed to the
\* executor, unless the mapper lookup of the first batch raises or there is no
\* batch at all (asyncio.wait raises ValueError); the merged callback of a failed
\* task raises on f.result() and leaves the stats alone
SourceTaskRun(s) ==
    /\ m_pc \in {"root", "other"}
    /\ m_task[s] = "scheduled"
    /\ IF NumBatches(s) = 0 \/ s \in m_unmapped
       THEN /\ m_task' = [m_task EXCEPT ![s] = "failed"]
            /\ m_raised' = m_raised \cup {"task"}
            /\ UNCHANGED m_unit
       ELSE /\ m_task' = [m_task EXCEPT ![s] = "waiting"]
            /\ m_unit' = [u \in Units |->
                            IF u[1] = s
                            THEN [st |-> "running", pos |-> 0, upsert |-> UpsertFlag(s),
                                  cnt |-> 0]
                            ELSE m_unit[u]]
            /\ UNCHANGED m_raised
    /\ UNCHANGED <<m_pc, m_run, m_srcs, m_target, m_stats, m_statuslog, m_snap, m_steps, mInputs>>
    /\ UNCHANGED <<mgrVars, resVars, andVars, trkVars, cfgVars, restVars>>

\* merger_worker: the bulk update applies the next document of the batch; after
\* the last one the worker returns
UnitStep(u) ==
    /\ m_unit[u].st = "running"
    /\ LET ids == BatchIds(u[1], u[2])
           pos == m_unit[u].pos + 1
           doc == MapperProcess(SrcDoc(u[1], ids[pos]))
       IN /\ m_target' = UpdateDoc(m_target, doc, m_unit[u].upsert)
          /\ m_unit' = [m_unit EXCEPT ![u].pos = pos,
                                      ![u].cnt = @ + UpdateCount(m_target, doc, m_unit[u].upsert),
                                      ![u].st = IF pos = Len(ids) THEN "ok" ELSE "running"]
    /\ UNCHANGED <<m_pc, m_run, m_srcs, m_task, m_stats, m_statuslog, m_raised, m_snap, m_steps,
                   mInputs>>
    /\ UNCHANGED <<mgrVars, resVars, andVars, trkVars, cfgVars, restVars>>

\* merger_worker raises; processed() logs the error
UnitFail(u) ==
    /\ m_unit[u].st = "running"
    /\ m_unit' = [m_unit EXCEPT ![u].st = "raised"]
    /\ UNCHANGED <<m_pc, m_run, m_srcs, m_task, m_target, m_stats, m_statuslog, m_raised,
                   m_snap, m_steps, mInputs>>
    /\ UNCHANGED <<mgrVars, resVars, andVars, trkVars, cfgVars, restVars>>

\* every unit of the source is done: merge_source returns {"total_<src>": cnt};
\* the task is done and its done callbacks are scheduled (call_soon)
SourceTaskDone(s) ==
    /\ m_task[s] = "waiting"
    /\ \A u \in Units : u[1] = s => m_unit[u].st \in {"ok", "raised"}
    /\ m_task' = [m_task EXCEPT ![s] = "done"]
    /\ UNCHANGED <<m_pc, m_run, m_srcs, m_unit, m_target, m_stats, m_statuslog, m_raised,
                   m_snap, m_steps, mInputs>>
    /\ UNCHANGED <<mgrVars, resVars, andVars, trkVars, cfgVars, restVars>>

\* the merged callback of a task that returned has not run yet: self.stats is
\* emptied when merge_sources starts and only merged adds the key of a source
MergedPending(tasks, stats, s) == tasks[s] = "done" /\ StatsKey(s) \notin DOMAIN stats

\* the done callback merged(f, stats) of the task of source s, in a later loop
\* iteration: stats.update(f.result())
Merged(s) ==
    /\ MergedPending(m_task, m_stats, s)
    /\ m_stats' = DictUpdate(m_stats, StatsKey(s) :> Len(SrcIds(s)))
    /\ UNCHANGED <<m_pc, m_run, m_srcs, m_task, m_unit, m_target, m_statuslog, m_raised,
                   m_snap, m_steps, mInputs>>
    /\ UNCHANGED <<mgrVars, resVars, andVars, trkVars, cfgVars, restVars>>

\* asyncio.wait adds its own done callback to each task after merged, and wakes
\* merge_sources up once the last of them ran: no merged callback is left
CallbacksRun(tasks, stats, phase) == \A s \in phase : ~MergedPending(tasks, stats, s)

\* merge_sources resumes after the root phase and starts the other phase
RootBarrier ==
    /\ m_pc = "root"
    /\ PhaseDrained(m_task, RootPhaseSources(m_srcs))
    /\ CallbacksRun(m_task, m_stats, RootPhaseSources(m_srcs))
    /\ StartPhase(OtherPhaseSources(m_srcs), "other")
    /\ UNCHANGED <<m_run, m_srcs, m_unit, m_target, m_stats, m_statuslog, m_snap, m_steps, mInputs>>
    /\ UNCHANGED <<mgrVars, resVars, andVars, trkVars, cfgVars, restVars>>

\* merge_sources resumes after the other phase
OtherBarrier ==
    /\ m_pc = "other"
    /\ PhaseDrained(m_task, OtherPhaseSources(m_srcs))
    /\ CallbacksRun(m_task, m_stats, OtherPhaseSources(m_srcs))
    /\ m_pc' = "finalize"
    /\ UNCHANGED <<m_run, m_srcs, m_task, m_unit, m_target, m_stats, m_statuslog, m_raised,
                   m_snap, m_steps, mInputs>>
    /\ UNCHANGED <<mgrVars, resVars, andVars, trkVars, cfgVars, restVars>>

\* self.target_backend.finalize()
Finalize(ok) ==
    /\ m_pc = "finalize"
    /\ m_pc' = IF ok THEN "post_merge" ELSE "job_failed"
    /\ m_steps' = IF ok THEN Append(m_steps, "finalize") ELSE m_steps
    /\ m_raised' = IF ok THEN m_raised ELSE m_raised \cup {"finalize"}
    /\ UNCHANGED <<m_run, m_srcs, m_task, m_unit, m_target, m_stats, m_statuslog, m_snap,
                   mInputs>>
    /\ UNCHANGED <<mgrVars, resVars, andVars, trkVars, cfgVars, restVars>>

\* self.post_merge(), then return self.stats
PostMerge(ok) ==
    /\ m_pc = "post_merge"
    /\ m_pc' = IF ok THEN "job_done" ELSE "job_failed"
    /\ m_steps' = IF ok THEN Append(m_steps, "post_merge") ELSE m_steps
    /\ m_raised' = IF ok THEN m_raised ELSE m_raised \cup {"post_merge"}
    /\ UNCHANGED <<m_run, m_srcs, m_task, m_unit, m_target, m_stats, m_statuslog, m_snap,
                   mInputs>>
    /\ UNCHANGED <<mgrVars, resVars, andVars, trkVars, cfgVars, restVars>>

\* every requested source was merged by units that all returned
CleanRun ==
    /\ m_pc \in {"job_done", "stored"}
    /\ \A s \in Range(m_srcs) : m_task[s] = "done"
    /\ \A u \in Units : m_unit[u].st \in {"none", "ok"}

\* store_stats, the done callback of the merge_sources task, whatever its
\* outcome: target_backend.post_merge(), get_src_versions(), register_status
StoreStats ==
    /\ m_pc \in {"job_done", "job_failed"}
    /\ LET r == RegisterStatus(cfg_build, cfg_haskey,
                               BuildInfo("success", FALSE, "target", now + 1),
                               TRUE, ExtraOf("success", <<>>, m_stats), FALSE)
       IN /\ CfgAfter(r)
          /\ m_statuslog' = IF r.raised THEN m_statuslog ELSE Append(m_statuslog, "success")
          /\ m_steps' = m_steps \o <<"target_post_merge", "src_versions">>
                            \o (IF r.raised THEN <<>> ELSE <<"success">>)
    /\ m_pc' = "stored"
    /\ m_snap' = IF CleanRun /\ ~m_snap.set
                 THEN [set |-> TRUE, run |-> m_run, target |-> m_target]
                 ELSE m_snap
    /\ UNCHANGED <<m_run, m_srcs, m_task, m_unit, m_target, m_stats, m_raised, mInputs>>
    /\ UNCHANGED <<mgrVars, resVars, andVars, trkVars, restVars>>

MergeNext ==
    \/ MergeCall
    \/ MergeSourcesStart
    \/ \E s \in Sources : SourceTaskRun(s)
    \/ \E u \in Units : UnitStep(u)
    \/ \E u \in Units : UnitFail(u)
    \/ \E s \in Sources : SourceTaskDone(s)
    \/ \E s \in Sources : Merged(s)
    \/ RootBarrier
    \/ OtherBarrier
    \/ \E ok \in BOOLEAN : Finalize(ok)
    \/ \E ok \in BOOLEAN : PostMerge(ok)
    \/ StoreStats

(***************************************************************************)
(* BuilderManager.clean_temp_collections  (databuild/builder.py)           *)
(***************************************************************************)

MaxTargetCols == 2  \* collections of the target database

Current == <<"c", "u", "r", "r", "e", "n", "t">>

\* sub in s
Contains(s, sub) ==
    \E i \in 1..(Len(s) - Len(sub) + 1) : SubSeq(s, i, i + Len(sub) - 1) = sub

ClnTargetNames ==
    {<<"b", "_", "1", "_", "x">>,
     <<"b", "_", "2", "_", "x">>,
     <<"b", "_", "1", "_">> \o Current,
     <<"b", "_">> \o Current,
     <<"p", "_", "b", "_", "1", "_", "x">>,
     <<"b", "x", "_", "1", "_", "x">>,
     <<"b", ".", "_", "1", "_", "x">>,
     <<"b", "*", "_", "1", "_", "x">>,
     <<"c", "_", "1", "_", "x">>,
     <<"x", "b", "_", "1", "_", "x">>}

ClnColLists ==
    {l \in SeqsOf(ClnTargetNames, 0, MaxTargetCols) :
        \A i, j \in DOMAIN l : i # j => l[i] # l[j]}

ClnBuildNames == {<<"b">>, <<"b", ".">>, <<"b", "*">>, <<"b", "|", "c">>, <<"*">>}
ClnDates ==
    {[given |-> FALSE, str |-> <<>>]}
        \cup {[given |-> TRUE, str |-> d] : d \in {<<>>, <<"1">>, <<".">>}}
ClnPrefixes == {<<>>, <<"p">>}

\* search = prefix and prefix + "_" or ""; search += build_name + '_';
\* search += date and date + '_' or ''
SearchTextNoDate(build_name, date, prefix) ==
    (IF prefix # <<>> THEN prefix \o <<"_">> ELSE <<>>) \o build_name \o <<"_">>
SearchText(build_name, date, prefix) ==
    (IF prefix # <<>> THEN prefix \o <<"_">> ELSE <<>>)
        \o build_name \o <<"_">>
        \o (IF date.given /\ date.str # <<>> THEN date.str \o <<"_">> ELSE <<>>)

\* the loop over the collection names: re.compile raises in the first iteration
\* or never; a collection is dropped when the pattern matches at its start and
\* its name does not contain 'current'
CleanTempCollections(cols, build_name, date, prefix) ==
    LET search == SearchText(build_name, date, prefix) IN
    IF cols # <<>> /\ CompileFails(search)
    THEN [status |-> "re.error", left |-> cols]
    ELSE [status |-> "ok",
          left |-> SelectSeq(cols, LAMBDA col_name :
                      ~(PatMatch(Compile(search), col_name)
                            /\ ~Contains(col_name, Current)))]

ClnNoResult == [status |-> "none", left |-> <<>>]

ClnIdle ==
    /\ cln_cols = <<>>
    /\ cln_args = [build_name |-> <<>>, date |-> [given |-> FALSE, str |-> <<>>],
                   prefix |-> <<>>]
    /\ cln_result = ClnNoResult

ClnInit ==
    /\ cln_cols \in ClnColLists
    /\ cln_args \in [build_name : ClnBuildNames, date : ClnDates, prefix : ClnPrefixes]
    /\ cln_result = ClnNoResult

ClnClean ==
    /\ cln_result.status = "none"
    /\ cln_result' = CleanTempCollections(cln_cols, cln_args.build_name, cln_args.date,
                                          cln_args.prefix)
    /\ UNCHANGED <<cln_cols, cln_args>>
    /\ UNCHANGED clnOthers

(***************************************************************************)
(* BuilderManager.register_builder and sync  (databuild/builder.py)        *)
(***************************************************************************)

SynBuildNames == {"mygene", "myvariant", "mychem"}

\* partial(create, build_name)
PartialCreate(build_name) == [func |-> "create", build_name |-> build_name]

\* self.register[build_name] = partial(create, build_name)
RegisterBuilder(register, build_name) ==
    (build_name :> PartialCreate(build_name)) @@ register

\* for conf in self.src_build.find(): self.register_builder(conf["_id"])
RECURSIVE SyncFrom(_, _)
SyncFrom(register, confs) ==
    IF confs = {} THEN register
    ELSE LET c == CHOOSE x \in confs : TRUE IN
         SyncFrom(RegisterBuilder(register, c), confs \ {c})

SynIdle ==
    /\ syn_confs = {}
    /\ syn_register = <<>>
    /\ syn_last = "none"

SynInit ==
    /\ syn_confs \in SUBSET SynBuildNames
    /\ syn_register = <<>>
    /\ syn_last = "none"

\* a build configuration is stored in src_build
SynAddConf(n) ==
    /\ n \notin syn_confs
    /\ syn_confs' = syn_confs \cup {n}
    /\ syn_last' = "insert"
    /\ UNCHANGED syn_register
    /\ UNCHANGED synOthers

\* a build configuration is removed from src_build
SynRemoveConf(n) ==
    /\ n \in syn_confs
    /\ syn_confs' = syn_confs \ {n}
    /\ syn_last' = "remove"
    /\ UNCHANGED syn_register
    /\ UNCHANGED synOthers

SynRegisterBuilder(n) ==
    /\ syn_register' = RegisterBuilder(syn_register, n)
    /\ syn_last' = "register_builder"
    /\ UNCHANGED syn_confs
    /\ UNCHANGED synOthers

SynSync ==
    /\ syn_register' = SyncFrom(syn_register, syn_confs)
    /\ syn_last' = "sync"
    /\ UNCHANGED syn_confs
    /\ UNCHANGED synOthers

SynNext ==
    \/ \E n \in SynBuildNames : SynAddConf(n)
    \/ \E n \in SynBuildNames : SynRemoveConf(n)
    \/ \E n \in SynBuildNames : SynRegisterBuilder(n)
    \/ SynSync

(***************************************************************************)
(* publish_data_version  (utils/hub.py)                                    *)
(***************************************************************************)

MaxListLen == 2     \* versions in a list argument

PubVersions == {<<"1">>, <<"2">>, <<"9">>, <<"1", "0">>}

Digits == <<"0", "1", "2", "3", "4", "5", "6", "7", "8", "9">>
Ord(ch) == CHOOSE i \in DOMAIN Digits : Digits[i] = ch

\* a < b for two str, as Python compares them
RECURSIVE StrLess(_, _)
StrLess(a, b) ==
    IF Len(b) = 0 THEN FALSE
    ELSE IF Len(a) = 0 THEN TRUE
    ELSE IF a[1] # b[1] THEN Ord(a[1]) < Ord(b[1])
    ELSE StrLess(Tail(a), Tail(b))

\* sorted(list(S))
RECURSIVE SortedList(_)
SortedList(S) ==
    IF S = {} THEN <<>>
    ELSE LET least == CHOOSE x \in S : \A y \in S \ {x} : StrLess(x, y) IN
         <<least>> \o SortedList(S \ {least})

\* the tokens of a JSON text: punctuation and string literals
Tok(c) == [t |-> c, str |-> <<>>]
StrTok(v) == [t |-> "str", str |-> v]

\* json.dumps of a list of str: its tokens
RECURSIVE JsonItems(_)
JsonItems(l) ==
    IF Len(l) = 0 THEN <<>>
    ELSE IF Len(l) = 1 THEN <<StrTok(l[1])>>
    ELSE <<StrTok(l[1]), Tok(",")>> \o JsonItems(Tail(l))
JsonDumps(l) == <<Tok("[")>> \o JsonItems(l) \o <<Tok("]")>>

\* the values json.loads returns for texts over these tokens: a str, a list of
\* values, the empty dict; JsonBad stands for JSONDecodeError
JsonStr(v) == [kind |-> "str", value |-> v]
JsonList(items) == [kind |-> "list", value |-> items]
JsonDict == [kind |-> "dict", value |-> <<>>]
JsonBad == [kind |-> "JSONDecodeError", value |-> <<>>]
ParseBad == [ok |-> FALSE, val |-> JsonBad, next |-> 0]
Parsed(val, next) == [ok |-> TRUE, val |-> val, next |-> next]

\* the decoder: the value that starts at token i and the position after it
RECURSIVE JsonParseValue(_, _)
RECURSIVE JsonParseItems(_, _, _)
JsonParseValue(toks, i) ==
    IF i > Len(toks) THEN ParseBad
    ELSE IF toks[i].t = "str" THEN Parsed(JsonStr(toks[i].str), i + 1)
    ELSE IF toks[i].t = "{"
         THEN IF i < Len(toks) /\ toks[i + 1].t = "}" THEN Parsed(JsonDict, i + 2)
              ELSE ParseBad
    ELSE IF toks[i].t = "["
         THEN IF i < Len(toks) /\ toks[i + 1].t = "]" THEN Parsed(JsonList(<<>>), i + 2)
              ELSE JsonParseItems(toks, i + 1, <<>>)
    ELSE ParseBad

\* the items of a list after "[" or ",", up to its "]"
JsonParseItems(toks, i, acc) ==
    LET v == JsonParseValue(toks, i) IN
        IF ~v.ok \/ v.next > Len(toks) THEN ParseBad
        ELSE IF toks[v.next].t = "," THEN JsonParseItems(toks, v.next + 1, Append(acc, v.val))
        ELSE IF toks[v.next].t = "]" THEN Parsed(JsonList(Append(acc, v.val)), v.next + 1)
        ELSE ParseBad

\* json.loads: the value of the whole text, or JSONDecodeError
JsonLoads(text) ==
    LET r == JsonParseValue(text, 1) IN
    IF r.ok /\ r.next = Len(text) + 1 THEN r.val ELSE JsonBad

\* the str items of a list as Python str
StrValues(items) == [i \in DOMAIN items |-> items[i].value]

\* the versions object of S3: missing, or its content
PubMissing == [exists |-> FALSE, text |-> <<>>]
PubStored(text) == [exists |-> TRUE, text |-> text]
PubNoLatest == [exists |-> FALSE, content |-> <<>>, redirect |-> <<>>]

\* the try block: the list the manifest holds, [] when it is missing or no JSON
LoadVersions(manifest) ==
    IF ~manifest.exists THEN [kind |-> "list", value |-> <<>>]
    ELSE LET v == JsonLoads(manifest.text) IN
         IF v.kind = "JSONDecodeError" THEN [kind |-> "list", value |-> <<>>] ELSE v

\* set(versions) raises TypeError on a list or dict item
Hashable(items) == \A i \in DOMAIN items : items[i].kind = "str"

\* versions = sorted(list(set(versions)))
KeepVersions(versions) == versions
NormalizeVersions(versions) == SortedList(Range(versions))

\* os.path.join("/", config.S3_DIFF_FOLDER, "%s.json" % version)
NewRedir(version) == <<"/", "S3_DIFF_FOLDER", "/">> \o version \o <<".json">>

\* publish_data_version(version, update_latest): the stored manifest, the
\* latest object and the exception raised, if any
PublishDataVersion(manifest, latest, islist, version, update_latest) ==
    LET loaded == LoadVersions(manifest) IN
    IF ~islist /\ loaded.kind # "list"
    THEN [manifest |-> manifest, latest |-> latest, raised |-> "AttributeError"]
    ELSE IF ~islist /\ ~Hashable(loaded.value)
    THEN [manifest |-> manifest, latest |-> latest, raised |-> "TypeError"]
    ELSE LET versions == IF islist THEN version
                         ELSE Append(StrValues(loaded.value), version) IN
         [manifest |-> PubStored(JsonDumps(NormalizeVersions(versions))),
          latest |-> IF ~islist /\ update_latest
                     THEN [exists |-> TRUE, content |-> version,
                           redirect |-> NewRedir(version)]
                     ELSE latest,
          raised |-> "none"]

PubIdle ==
    /\ pub_manifest = PubMissing
    /\ pub_latest = PubNoLatest
    /\ pub_start = "idle"
    /\ pub_published = {}
    /\ pub_last = [op |-> "none", raised |-> "none", before |-> PubMissing]

PubInit ==
    /\ \E s \in {"missing", "malformed", "dict", "str", "nested", "list"} :
          /\ pub_start = s
          /\ pub_manifest = IF s = "missing" THEN PubMissing
                            ELSE IF s = "malformed" THEN PubStored(<<Tok("["), StrTok(<<"1">>)>>)
                            ELSE IF s = "dict" THEN PubStored(<<Tok("{"), Tok("}")>>)
                            ELSE IF s = "str" THEN PubStored(<<StrTok(<<"1">>)>>)
                            ELSE IF s = "nested"
                                 THEN PubStored(<<Tok("["), Tok("["), Tok("]"), Tok("]")>>)
                            ELSE PubStored(JsonDumps(<<<<"2">>, <<"1">>>>))
    /\ pub_latest = PubNoLatest
    /\ pub_published = {}
    /\ pub_last = [op |-> "none", raised |-> "none", before |-> pub_manifest]

\* publish_data_version("<version>")
PubOne(version, update_latest) ==
    LET r == PublishDataVersion(pub_manifest, pub_latest, FALSE, version, update_latest) IN
    /\ pub_manifest' = r.manifest
    /\ pub_latest' = r.latest
    /\ pub_last' = [op |-> "one", raised |-> r.raised, before |-> pub_manifest]
    /\ pub_published' = IF r.raised = "none" THEN pub_published \cup {version}
                         ELSE pub_published
    /\ UNCHANGED pub_start
    /\ UNCHANGED pubOthers

\* publish_data_version([...])
PubList(versions) ==
    LET r == PublishDataVersion(pub_manifest, pub_latest, TRUE, versions, TRUE) IN
    /\ pub_manifest' = r.manifest
    /\ pub_latest' = r.latest
    /\ pub_last' = [op |-> "list", raised |-> r.raised, before |-> pub_manifest]
    /\ pub_published' = Range(versions)
    /\ UNCHANGED pub_start
    /\ UNCHANGED pubOthers

PubNext ==
    \/ \E v \in PubVersions, u \in BOOLEAN : PubOne(v, u)
    \/ \E l \in SeqsOf(PubVersions, 0, MaxListLen) : PubList(l)

(***************************************************************************)
(* DataBuilder: lazy state, prepare and unprepare  (databuild/builder.py)  *)
(***************************************************************************)

MaxOps == 4         \* accesses and prepare / unprepare calls on one builder

\* init_state(): None is 0; a backend is numbered by the factory call that made
\* it; logging.getLogger(name) is one object, the configuration one document
PrpUnset == [logger |-> 0, source_backend |-> 0, target_backend |-> 0, build_config |-> 0]
PrpNoCalls == [source_factory |-> 0, target_factory |-> 0, setup |-> 0, setup_log |-> 0,
               fetch |-> 0]
PrpFresh == [st |-> PrpUnset, prepared |-> FALSE, calls |-> PrpNoCalls, raised |-> "none"]

\* the build_config property once the source backend is set: a fetch each time
FetchBuildConfig(b) ==
    [b EXCEPT !.st.build_config = 1, !.calls.fetch = @ + 1]

\* setup(): binds the target name; the root key must be in the build configuration
Setup(b, has_root) ==
    LET c == FetchBuildConfig([b EXCEPT !.calls.setup = @ + 1]) IN
    IF has_root THEN c ELSE [c EXCEPT !.raised = "BuilderException"]

\* setup_log(): the logger setter
SetupLog(b) == [b EXCEPT !.calls.setup_log = @ + 1, !.st.logger = 1]

\* if self.prepared: return
PreparedGuard(b) == b.prepared

\* prepare() with no state
Prepare(b, has_root) ==
    IF PreparedGuard(b) THEN b
    ELSE LET made == [b EXCEPT !.st.source_backend = b.calls.source_factory + 1,
                               !.calls.source_factory = @ + 1,
                               !.st.target_backend = b.calls.target_factory + 1,
                               !.calls.target_factory = @ + 1]
             set == Setup(made, has_root)
         IN IF set.raised # "none" THEN set ELSE SetupLog(set)

\* prepare(state): _state takes the four values of the token
RestoreNothing(b, state) == b
RestoreState(b, state) ==
    IF PreparedGuard(b) THEN b ELSE [b EXCEPT !.st = state]

\* unprepare(): the token and the cleared builder
UnprepareToken(b) == b.st
Unprepare(b) == [b EXCEPT !.st = PrpUnset, !.prepared = FALSE]

\* the logger property
GetLogger(b, has_root) == IF b.st.logger = 0 THEN Prepare(b, has_root) ELSE b

\* the source_backend property
GetSourceBackend(b, has_root) ==
    IF b.st.source_backend = 0
    THEN LET p == Prepare(b, has_root) IN
         IF p.raised # "none" THEN p ELSE FetchBuildConfig(p)
    ELSE b

\* the target_backend property
GetTargetBackend(b, has_root) ==
    IF b.st.target_backend = 0 THEN Prepare(b, has_root) ELSE b

\* the build_config property
GetBuildConfig(b, has_root) ==
    LET s == GetSourceBackend(b, has_root) IN
    IF s.raised # "none" THEN s ELSE FetchBuildConfig(s)

PrpOps == {"logger", "source_backend", "target_backend", "build_config", "prepare"}

PrpApply(op, b, has_root) ==
    IF op = "logger" THEN GetLogger(b, has_root)
    ELSE IF op = "source_backend" THEN GetSourceBackend(b, has_root)
    ELSE IF op = "target_backend" THEN GetTargetBackend(b, has_root)
    ELSE IF op = "build_config" THEN GetBuildConfig(b, has_root)
    ELSE Prepare(b, has_root)

PrpIdle ==
    /\ prp_bdr = PrpFresh
    /\ prp_has_root = TRUE
    /\ prp_token = [given |-> FALSE, state |-> PrpUnset]
    /\ prp_last = "none"
    /\ prp_prev = PrpFresh
    /\ prp_ops = 0
    /\ prp_unprepared = FALSE

PrpInit ==
    /\ prp_bdr = PrpFresh
    /\ prp_has_root \in BOOLEAN
    /\ prp_token = [given |-> FALSE, state |-> PrpUnset]
    /\ prp_last = "none"
    /\ prp_prev = PrpFresh
    /\ prp_ops = 0
    /\ prp_unprepared = FALSE

\* an access to one of the four properties, or a direct prepare() call
PrpAccess(op) ==
    /\ prp_ops < MaxOps
    /\ prp_bdr' = PrpApply(op, [prp_bdr EXCEPT !.raised = "none"], prp_has_root)
    /\ prp_last' = op
    /\ prp_prev' = prp_bdr
    /\ prp_ops' = prp_ops + 1
    /\ UNCHANGED <<prp_has_root, prp_token, prp_unprepared>>
    /\ UNCHANGED prpOthers

\* token = builder.unprepare()
PrpUnprepare ==
    /\ prp_ops < MaxOps
    /\ prp_token' = [given |-> TRUE, state |-> UnprepareToken(prp_bdr)]
    /\ prp_bdr' = Unprepare([prp_bdr EXCEPT !.raised = "none"])
    /\ prp_last' = "unprepare"
    /\ prp_prev' = prp_bdr
    /\ prp_ops' = prp_ops + 1
    /\ prp_unprepared' = TRUE
    /\ UNCHANGED prp_has_root
    /\ UNCHANGED prpOthers

\* builder.prepare(token)
PrpRestore ==
    /\ prp_ops < MaxOps
    /\ prp_token.given
    /\ prp_bdr' = RestoreState([prp_bdr EXCEPT !.raised = "none"], prp_token.state)
    /\ prp_last' = "prepare(token)"
    /\ prp_prev' = prp_bdr
    /\ prp_ops' = prp_ops + 1
    /\ UNCHANGED <<prp_has_root, prp_token, prp_unprepared>>
    /\ UNCHANGED prpOthers

PrpNext ==
    \/ \E op \in PrpOps : PrpAccess(op)
    \/ PrpUnprepare
    \/ PrpRestore

(***************************************************************************)
(* HubSSHServerSession: the console session  (utils/hub.py)                *)
(***************************************************************************)

MaxJobCnt == 3      \* records registered over a run
MaxBreaks == 1      \* break signals over a run
MaxTyped == 12      \* characters typed over all sessions

Sessions == {"s1", "s2"}

CallA == <<"a", "(", ")">>
CallB == <<"b", "(", ")">>
CallC == <<"c", "(", ")">>
Amp == <<"&", "&">>
Eol == <<"\n">>

\* the namespace of the shell: a and b are commands that return a Task, c is
\* the HubCommand "a()&&b()"
TaskCommands == {<<"a">>, <<"b">>}
AliasName == <<"c">>
AliasText == CallA \o Amp \o CallB

\* what the operator of one session types; <<>> is a session left alone
ConScripts ==
    {<<>>,
     CallA \o Eol,
     CallC \o Eol,
     CallA \o Eol \o CallB \o Eol,
     <<" ">> \o CallA \o Amp \o CallB \o Eol,
     CallA \o <<" ">> \o Amp \o Eol \o Eol \o <<"b">> \o Eol,
     <<"a">> \o Amp \o <<"b">> \o Eol \o <<" ">> \o CallA \o Eol}

\* str.strip()
WhiteSpace == {" ", "\n", "\t"}

RECURSIVE LStrip(_)
LStrip(s) == IF s # <<>> /\ Head(s) \in WhiteSpace THEN LStrip(Tail(s)) ELSE s

RECURSIVE RStrip(_)
RStrip(s) ==
    IF s # <<>> /\ s[Len(s)] \in WhiteSpace THEN RStrip(SubSeq(s, 1, Len(s) - 1)) ELSE s

Strip(s) == RStrip(LStrip(s))

\* the position of the first occurrence of sub in s from i on, 0 when none
RECURSIVE Find(_, _, _)
Find(s, sub, i) ==
    IF i + Len(sub) - 1 > Len(s) THEN 0
    ELSE IF SubSeq(s, i, i + Len(sub) - 1) = sub THEN i
    ELSE Find(s, sub, i + 1)

\* str.split(sep)
RECURSIVE SplitStr(_, _)
SplitStr(s, sep) ==
    LET k == Find(s, sep, 1) IN
    IF k = 0 THEN <<s>>
    ELSE <<SubSeq(s, 1, k - 1)>> \o SplitStr(SubSeq(s, k + Len(sep), Len(s)), sep)

\* sep.join(items)
RECURSIVE Join(_, _)
Join(items, sep) ==
    IF items = <<>> THEN <<>>
    ELSE IF Len(items) = 1 THEN items[1]
    ELSE items[1] \o sep \o Join(Tail(items), sep)

SetMax(S) == CHOOSE x \in S : \A y \in S : y <= x

\* re.match("(.*)\((.*)\)", text): both groups are greedy
CallMatch(text) ==
    LET opens == {i \in DOMAIN text :
                    text[i] = "(" /\ \E j \in (i + 1)..Len(text) : text[j] = ")"}
    IN IF opens = {} THEN [matched |-> FALSE, func |-> <<>>, args |-> <<>>]
       ELSE LET i == SetMax(opens)
                j == SetMax({k \in (i + 1)..Len(text) : text[k] = ")"})
            IN [matched |-> TRUE,
                func |-> SubSeq(text, 1, i - 1),
                args |-> SubSeq(text, i + 1, j - 1)]

\* cmd in self.commands and isinstance(self.commands[cmd], HubCommand)
IsAlias(line) ==
    LET m == CallMatch(line) IN m.matched /\ Strip(m.func) = AliasName

\* [cmd for cmd in map(str.strip, line.split("&&")) if cmd]
ChainedJobs(line) ==
    LET parts == SplitStr(line, Amp)
        stripped == [i \in DOMAIN parts |-> Strip(parts[i])]
    IN SelectSeq(stripped, LAMBDA cmd : cmd # <<>>)

PartialOpen == <<"p", "a", "r", "t", "i", "a", "l", "(">>
AndOpen == <<"_", "a", "n", "d", "(">>

\* "partial(%s,%s)" % (func, args) if args else "partial(%s)" % func
StrJob(job) ==
    LET m == CallMatch(job) IN
    IF m.args # <<>> THEN PartialOpen \o m.func \o <<",">> \o m.args \o <<")">>
    ELSE PartialOpen \o m.func \o <<")">>

\* "_and(%s)" % ",".join(strjobs)
AndExpr(chained_jobs) ==
    AndOpen \o Join([i \in DOMAIN chained_jobs |-> StrJob(chained_jobs[i])], <<",">>)
            \o <<")">>

NoSpace(t) == SelectSeq(t, LAMBDA ch : ch # " ")

\* whether the text is _and(partial(f), ...) over commands that return a Task
IsAndCall(t) ==
    /\ Find(t, AndOpen \o PartialOpen, 1) = 1
    /\ t[Len(t)] = ")"
    /\ LET body == SubSeq(t, Len(AndOpen) + Len(PartialOpen) + 1, Len(t) - 1)
           items == SplitStr(body, PartialOpen)
           closes == {<<")">>, <<",", ")">>}
       IN \A i \in DOMAIN items :
            \E f \in TaskCommands : \E c \in closes :
                items[i] = f \o c \o (IF i < Len(items) THEN <<",">> ELSE <<>>)

\* self.shell.run_cell(cmdline): what evaluating the text in the namespace gives
RunCell(cmdline) ==
    LET t == NoSpace(cmdline) IN
    IF t = <<>> THEN [kind |-> "none", more |-> FALSE]
    ELSE IF t \in {CallA, CallB} THEN [kind |-> "task", more |-> FALSE]
    ELSE IF t \in TaskCommands \cup {AliasName, <<"(", ")">>}
         THEN [kind |-> "value", more |-> FALSE]
    ELSE IF IsAndCall(t)
         THEN [kind |-> "task",
               more |-> Len(SplitStr(t, PartialOpen)) > 2]
    ELSE [kind |-> "error", more |-> FALSE]

\* [j["cmd"] for j in running_jobs.values()]
RunningCmds(jobs) == {jobs[num].cmd : num \in DOMAIN jobs}

KeepJobCnt(cnt) == cnt
\* self.__class__.job_cnt += 1
NextJobCnt(cnt) == cnt + 1

NoCmdline == <<"-">>
LogEntry(raw, outcome, amp, operands, ran, cmdline) ==
    [raw |-> raw, outcome |-> outcome, amp |-> amp, operands |-> operands,
     ran |-> ran, cmdline |-> cmdline]

\* the body of the loop over the complete lines, for one line; st is the
\* running-job table, the counter, what the call has done so far and whether
\* it has raised
ProcessLine(raw, st) ==
    IF raw = <<>> THEN st
    ELSE
    LET typed == Strip(raw)
        line == IF IsAlias(typed) THEN AliasText ELSE typed
        amp == Contains(line, Amp)
        chained_jobs == IF amp THEN ChainedJobs(line) ELSE <<>>
        Logged(outcome, ran, cmdline) ==
            [st EXCEPT !.log = Append(@, LogEntry(raw, outcome, amp, chained_jobs,
                                                  ran, cmdline))]
        Run(cmdline) ==
            LET r == RunCell(cmdline) IN
            IF r.kind = "task"
            THEN [Logged("job", TRUE, cmdline) EXCEPT
                    !.jobs = @ @@ (st.cnt :> [cmd |-> line, typed |-> typed,
                                              jobs |-> <<"pending">>, more |-> r.more]),
                    !.cnt = NextJobCnt(@),
                    !.regs = Append(@, st.cnt)]
            ELSE Logged(r.kind, TRUE, cmdline)
    IN IF typed \in RunningCmds(st.jobs) THEN
           [st EXCEPT !.log = Append(@, LogEntry(raw, "duplicate", FALSE, <<>>, FALSE,
                                                 NoCmdline))]
       ELSE IF ~amp THEN Run(line)
       ELSE IF Len(chained_jobs) > 1 THEN
           IF \E i \in DOMAIN chained_jobs : ~CallMatch(chained_jobs[i]).matched
           THEN [Logged("raised", FALSE, NoCmdline) EXCEPT !.raised = TRUE]
           ELSE Run(AndExpr(chained_jobs))
       ELSE Logged("usererror", FALSE, NoCmdline)

RECURSIVE ProcessLines(_, _, _)
ProcessLines(lines, i, st) ==
    IF i > Len(lines) \/ st.raised THEN st
    ELSE ProcessLines(lines, i + 1, ProcessLine(lines[i], st))

AnyDone(info) == \E i \in DOMAIN info.jobs : info.jobs[i] # "pending"
\* set([j.done() for j in info["jobs"]]) == set([True])
IsDone(info) == \A i \in DOMAIN info.jobs : info.jobs[i] # "pending"

\* the errors of the handles that raised, else the result of each handle
Outputs(info) ==
    LET errs == SelectSeq(info.jobs, LAMBDA h : h = "err") IN
    IF errs # <<>> THEN errs ELSE info.jobs

\* one status line
StatusLine(num, info) ==
    IF IsDone(info)
    THEN [num |-> num,
          kind |-> IF \E i \in DOMAIN info.jobs : info.jobs[i] = "err" THEN "ERR" ELSE "OK",
          cmd |-> info.cmd, outputs |-> Outputs(info)]
    ELSE [num |-> num, kind |-> "RUN", cmd |-> info.cmd, outputs |-> <<>>]

\* sorted(running_jobs.items())
RECURSIVE SortedNums(_)
SortedNums(S) ==
    IF S = {} THEN <<>>
    ELSE LET m == CHOOSE x \in S : \A y \in S : x <= y IN <<m>> \o SortedNums(S \ {m})

\* the status report and the table without the finished records
Report(jobs) ==
    LET nums == SortedNums(DOMAIN jobs) IN
    [i \in DOMAIN nums |-> StatusLine(nums[i], jobs[nums[i]])]

KeepFinished(jobs) == jobs
\* running_jobs.pop(num) for every finished num
Unfinished(jobs) ==
    LET finished == {num \in DOMAIN jobs : IsDone(jobs[num])} IN
    [num \in DOMAIN jobs \ finished |-> jobs[num]]

DropLeftover(lines) == <<>>
\* self._input = lines[-1]
Leftover(lines) == lines[Len(lines)]

NoRecords == [num \in {} |-> 0]

\* data_received(data, datatype) on a session whose buffer is input
DataReceived(input, data, jobs, cnt) ==
    LET lines == Split(input \o data, "\n")
        st == ProcessLines(SubSeq(lines, 1, Len(lines) - 1), 1,
                           [jobs |-> jobs, cnt |-> cnt, log |-> <<>>, regs |-> <<>>,
                            raised |-> FALSE])
    IN IF st.raised
       THEN [input |-> input \o data, jobs |-> st.jobs, cnt |-> st.cnt, log |-> st.log,
             regs |-> st.regs, raised |-> TRUE, polled |-> NoRecords, report |-> <<>>]
       ELSE [input |-> Leftover(lines), jobs |-> Unfinished(st.jobs), cnt |-> st.cnt,
             log |-> st.log, regs |-> st.regs, raised |-> FALSE, polled |-> st.jobs,
             report |-> Report(st.jobs)]

ConNoCall == [s |-> "none", kind |-> "none", raised |-> FALSE, before |-> <<>>,
              log |-> <<>>, polled |-> NoRecords, report |-> <<>>]

ConIdle ==
    /\ con_script = [s \in Sessions |-> <<>>]
    /\ con_pos = [s \in Sessions |-> 0]
    /\ con_input = [s \in Sessions |-> <<>>]
    /\ con_closed = [s \in Sessions |-> FALSE]
    /\ con_breaks = 0
    /\ con_jobs = NoRecords
    /\ con_cnt = 1
    /\ con_regs = <<>>
    /\ con_stream = [s \in Sessions |-> <<>>]
    /\ con_processed = [s \in Sessions |-> <<>>]
    /\ con_last = ConNoCall

TypedTotal(scripts) == Len(scripts["s1"]) + Len(scripts["s2"])

ConInit ==
    /\ con_script \in {f \in [Sessions -> ConScripts] :
                          /\ TypedTotal(f) <= MaxTyped
                          /\ Len(f["s1"]) >= Len(f["s2"])}
    /\ con_pos = [s \in Sessions |-> 0]
    /\ con_input = [s \in Sessions |-> <<>>]
    /\ con_closed = [s \in Sessions |-> FALSE]
    /\ con_breaks = 0
    /\ con_jobs = NoRecords
    /\ con_cnt = 1
    /\ con_regs = <<>>
    /\ con_stream = [s \in Sessions |-> <<>>]
    /\ con_processed = [s \in Sessions |-> <<>>]
    /\ con_last = ConNoCall

\* session s receives data: the whole call, status report included; an
\* exception that leaves data_received ends the session
ConReceive(s, data, kind) ==
    /\ ~con_closed[s]
    /\ \E r \in {DataReceived(con_input[s], data, con_jobs, con_cnt)} :
          /\ r.cnt <= MaxJobCnt + 1
          /\ con_input' = [con_input EXCEPT ![s] = r.input]
          /\ con_jobs' = r.jobs
          /\ con_cnt' = r.cnt
          /\ con_regs' = con_regs \o r.regs
          /\ con_closed' = [con_closed EXCEPT ![s] = r.raised]
          /\ con_stream' = [con_stream EXCEPT ![s] = @ \o data]
          /\ con_processed' = [con_processed EXCEPT
                                 ![s] = @ \o [i \in DOMAIN r.log |-> r.log[i].raw]]
          /\ con_last' = [s |-> s, kind |-> kind, raised |-> r.raised,
                          before |-> con_input[s], log |-> r.log, polled |-> r.polled,
                          report |-> r.report]

\* the next k characters of what is typed reach the session in one chunk
ConData(s, k) ==
    /\ con_pos[s] + k <= Len(con_script[s])
    /\ ConReceive(s, SubSeq(con_script[s], con_pos[s] + 1, con_pos[s] + k), "data")
    /\ con_pos' = [con_pos EXCEPT ![s] = @ + k]
    /\ UNCHANGED <<con_script, con_breaks>>
    /\ UNCHANGED conOthers

\* break_received(msec): data_received("\n")
ConBreak(s) ==
    /\ con_breaks < MaxBreaks
    /\ ConReceive(s, Eol, "break")
    /\ con_breaks' = con_breaks + 1
    /\ UNCHANGED <<con_script, con_pos>>
    /\ UNCHANGED conOthers

\* a pending handle of a tracked record completes with a result or an error
ConSettle(num, i, outcome) ==
    /\ num \in DOMAIN con_jobs
    /\ i \in DOMAIN con_jobs[num].jobs
    /\ con_jobs[num].jobs[i] = "pending"
    /\ con_jobs' = [con_jobs EXCEPT ![num].jobs[i] = outcome]
    /\ UNCHANGED <<con_script, con_pos, con_input, con_closed, con_breaks, con_cnt,
                   con_regs, con_stream, con_processed, con_last>>
    /\ UNCHANGED conOthers

\* _and's callback on the first handle of a chain: the next function is called
\* when the handle did not raise, and its handle joins the tracked list
ConDo(num) ==
    /\ num \in DOMAIN con_jobs
    /\ con_jobs[num].more
    /\ con_jobs[num].jobs[1] # "pending"
    /\ con_jobs' = [con_jobs EXCEPT
                      ![num].more = FALSE,
                      ![num].jobs = IF DoConsumesResult(con_jobs[num].jobs[1])
                                    THEN Append(@, "pending") ELSE @]
    /\ UNCHANGED <<con_script, con_pos, con_input, con_closed, con_breaks, con_cnt,
                   con_regs, con_stream, con_processed, con_last>>
    /\ UNCHANGED conOthers

ConNext ==
    \/ \E s \in Sessions : \E k \in 1..MaxTyped : ConData(s, k)
    \/ \E s \in Sessions : ConBreak(s)
    \/ \E num \in 1..MaxJobCnt : \E i \in 1..2 : \E outcome \in {"ok", "err"} :
          ConSettle(num, i, outcome)
    \/ \E num \in 1..MaxJobCnt : ConDo(num)

(***************************************************************************)
(* BaseSourceManager: register_source, register_sources (utils/manager.py) *)
(***************************************************************************)

MaxDecls == 2       \* declarations of a sources list
MaxGroup == 2       \* sub-sources of a grouped declaration

default_src_path == "dataload.sources"

\* the modules that can be imported, by path, and the source classes each holds:
\* a is found as given, b only under the default path, e holds no source class
\* and x is found nowhere
RegNames == {"a", "b", "e", "x"}
RegModules ==
    (<<"a">> :> {"A"}) @@ (<<default_src_path, "b">> :> {"B"})
                       @@ (<<default_src_path, "e">> :> {})

\* importlib.import_module(path)
CanImport(path) == path \in DOMAIN RegModules

\* find_classes(src_module, fail_on_notfound): the classes, or UnknownResource
FindClasses(path, fail_on_notfound) ==
    IF RegModules[path] = {} /\ fail_on_notfound
    THEN [raised |-> "UnknownResource", klasses |-> {}]
    ELSE [raised |-> "none", klasses |-> RegModules[path]]

\* register_classes(klasses) of a concrete manager: every class gets a key
RegisterClasses(register, klasses) == register \cup klasses

RegName(n) == [kind |-> "name", name |-> n, subs |-> <<>>]
RegGroupOf(subs) == [kind |-> "group", name |-> "g", subs |-> subs]

\* register_source(src_data, fail_on_notfound) for a module path or a name
RegisterName(register, name, fail_on_notfound) ==
    LET path == IF CanImport(<<name>>) THEN <<name>> ELSE <<default_src_path, name>> IN
    IF ~CanImport(path) THEN [register |-> register, raised |-> "UnknownResource"]
    ELSE LET found == FindClasses(path, fail_on_notfound) IN
         IF found.raised # "none" THEN [register |-> register, raised |-> found.raised]
         ELSE [register |-> RegisterClasses(register, found.klasses), raised |-> "none"]

\* the loop over the sub-sources of a grouped declaration: an exception of one
\* sub-source leaves the loop
RECURSIVE RegisterSubs(_, _, _, _)
RegisterSubs(register, subs, i, fail_on_notfound) ==
    IF i > Len(subs) THEN [register |-> register, raised |-> "none"]
    ELSE LET r == RegisterName(register, subs[i], fail_on_notfound) IN
         IF r.raised # "none" THEN r
         ELSE RegisterSubs(r.register, subs, i + 1, fail_on_notfound)

\* register_source(src_data, fail_on_notfound)
RegisterSource(register, src_data, fail_on_notfound) ==
    IF src_data.kind = "name" THEN RegisterName(register, src_data.name, fail_on_notfound)
    ELSE RegisterSubs(register, src_data.subs, 1, fail_on_notfound)

\* register_sources(sources): the registry is emptied, then every declaration
\* is registered; UnknownResource is logged and the loop goes on
RECURSIVE RegisterFrom(_, _, _)
RegisterFrom(register, sources, i) ==
    IF i > Len(sources) THEN register
    ELSE RegisterFrom(RegisterSource(register, sources[i], FALSE).register, sources, i + 1)

RegisterSources(sources) == RegisterFrom({}, sources, 1)

RegDecls ==
    {RegName(n) : n \in RegNames}
        \cup {RegGroupOf(subs) : subs \in SeqsOf(RegNames, 1, MaxGroup)}

RegIdle ==
    /\ reg_sources = <<>>
    /\ reg_register = {}
    /\ reg_done = FALSE

RegInit ==
    /\ reg_sources \in SeqsOf(RegDecls, 0, MaxDecls)
    /\ reg_register \in {{}, {"A", "old"}}
    /\ reg_done = FALSE

\* manager.register_sources(sources)
RegRegisterSources ==
    /\ ~reg_done
    /\ reg_register' = RegisterSources(reg_sources)
    /\ reg_done' = TRUE
    /\ UNCHANGED reg_sources
    /\ UNCHANGED regOthers

(***************************************************************************)
(* BuilderManager: lookups and merge  (databuild/builder.py)               *)
(***************************************************************************)

MaxLookups == 3     \* lookups and merge calls on one manager

BmBuildNames == {<<"m">>}
\* a registered name, an unregistered one, and dotted names whose first part
\* is or is not registered
BmNames == {<<"m">>, <<"n">>, <<"m", ".", "n">>, <<"n", ".", "m">>,
            <<"m", ".", "n", ".", "m">>}

\* BaseManager.__getitem__ on a registry whose values are partials: the
\* sub-source branch iterates over the registered value, and a partial is not
\* iterable
BmGetItem(register, src_name) ==
    IF src_name \in DOMAIN register THEN [raised |-> "none", pclass |-> register[src_name]]
    ELSE LET parts == Split(src_name, ".") IN
         IF Len(parts) # 2 THEN [raised |-> "KeyError", pclass |-> <<>>]
         ELSE IF parts[1] \notin DOMAIN register
              THEN [raised |-> "KeyError", pclass |-> <<>>]
         ELSE [raised |-> "TypeError", pclass |-> <<>>]

BmNoBuilder == [id |-> 0, build_name |-> <<>>, source_backend |-> 0, target_backend |-> 0]

\* what create() hands to the builder as a backend that is still to be made
BmPartial == 0

SharedBuilder(build_name, objs, factories) ==
    [bdr |-> [id |-> 1, build_name |-> build_name,
              source_backend |-> IF factories THEN 2 ELSE BmPartial,
              target_backend |-> IF factories THEN 3 ELSE BmPartial],
     objs |-> IF objs < 3 THEN 3 ELSE objs]
\* create(build_name): the manager's factories are called when it has them,
\* else the builder gets partials; objects are numbered as they are made
Create(build_name, objs, factories) ==
    IF factories
    THEN [bdr |-> [id |-> objs + 3, build_name |-> build_name,
                   source_backend |-> objs + 1, target_backend |-> objs + 2],
          objs |-> objs + 3]
    ELSE [bdr |-> [id |-> objs + 1, build_name |-> build_name,
                   source_backend |-> BmPartial, target_backend |-> BmPartial],
          objs |-> objs + 1]

\* BuilderManager.__getitem__(build_name): pclass()
BuilderGetItem(register, build_name, objs, factories) ==
    LET found == BmGetItem(register, build_name) IN
    IF found.raised # "none"
    THEN [raised |-> found.raised, bdr |-> BmNoBuilder, objs |-> objs]
    ELSE LET made == Create(found.pclass.build_name, objs, factories) IN
         [raised |-> "none", bdr |-> made.bdr, objs |-> made.objs]

\* what the "build" key of the build configuration holds before a merge
Histories == {"nokey", "empty", "some"}

\* DataBuilder.merge up to the point where it hands back the job. Without
\* sources the target is dropped and the "sources" key of the build
\* configuration is read; a builder that was given backend objects has not run
\* setup(), so its target is not named yet (unnamed_drop_raises: whether the
\* backend's drop() raises then), and its logger has no partial to prepare
\* itself from. Then register_status("building", init=True, build=...) updates
\* _cfg["build"][-1], which raises when the configuration has no "build" key or
\* an empty history; the except branch registers "failed" the same way, and
\* that error leaves merge
BuilderMerge(sources_given, has_sources, factories, history, unnamed_drop_raises) ==
    IF ~sources_given /\ factories /\ unnamed_drop_raises
    THEN [raised |-> "AttributeError", dropped |-> FALSE, status |-> FALSE]
    ELSE IF ~sources_given /\ ~has_sources
    THEN [raised |-> "KeyError", dropped |-> TRUE, status |-> FALSE]
    ELSE IF factories
    THEN [raised |-> "AttributeError", dropped |-> ~sources_given, status |-> FALSE]
    ELSE IF history = "nokey"
    THEN [raised |-> "KeyError", dropped |-> ~sources_given, status |-> FALSE]
    ELSE IF history = "empty"
    THEN [raised |-> "IndexError", dropped |-> ~sources_given, status |-> FALSE]
    ELSE [raised |-> "none", dropped |-> ~sources_given, status |-> TRUE]

\* BuilderManager.merge(build_name, sources): self.loop is read before
\* bdr.merge is called; KeyError becomes BuilderException
ManagerMerge(register, build_name, sources_given, objs, env) ==
    LET got == BuilderGetItem(register, build_name, objs, env.factories)
        NotFound(r) == IF r = "KeyError" THEN "BuilderException: No such builder" ELSE r
    IN IF got.raised # "none"
       THEN [raised |-> NotFound(got.raised), bdr |-> BmNoBuilder, objs |-> objs,
             dropped |-> FALSE, status |-> FALSE]
       ELSE IF ~env.has_loop
       THEN [raised |-> "AttributeError", bdr |-> got.bdr, objs |-> got.objs,
             dropped |-> FALSE, status |-> FALSE]
       ELSE LET m == BuilderMerge(sources_given, env.has_sources, env.factories,
                                  env.history, env.unnamed_drop_raises) IN
            [raised |-> NotFound(m.raised), bdr |-> got.bdr, objs |-> got.objs,
             dropped |-> m.dropped, status |-> m.status]

BmNoCall == [op |-> "none", name |-> <<>>, raised |-> "none", bdr |-> BmNoBuilder,
             register |-> <<>>, objs |-> 0, dropped |-> FALSE, status |-> FALSE]

BmIdle ==
    /\ bm_register = <<>>
    /\ bm_env = [factories |-> FALSE, has_loop |-> FALSE, has_sources |-> TRUE,
                 history |-> "some", unnamed_drop_raises |-> FALSE]
    /\ bm_objs = 0
    /\ bm_ops = 0
    /\ bm_last = BmNoCall
    /\ bm_prev = BmNoCall

\* the manager with or without backend factories, with or without a loop
\* attribute given by its host, build configurations with or without a
\* "sources" key, never built, with an empty history or built before, and a
\* target backend whose drop() raises or not while the target is unnamed
BmInit ==
    /\ bm_register = <<>>
    /\ bm_env \in [factories : BOOLEAN, has_loop : BOOLEAN, has_sources : BOOLEAN,
                    history : Histories, unnamed_drop_raises : BOOLEAN]
    /\ bm_objs = 0
    /\ bm_ops = 0
    /\ bm_last = BmNoCall
    /\ bm_prev = BmNoCall

\* manager.register_builder(build_name)
BmRegisterBuilder(build_name) ==
    /\ build_name \notin DOMAIN bm_register
    /\ bm_register' = RegisterBuilder(bm_register, build_name)
    /\ UNCHANGED <<bm_env, bm_objs, bm_ops, bm_last, bm_prev>>
    /\ UNCHANGED bmOthers

\* manager[build_name]
BmLookup(build_name) ==
    /\ bm_ops < MaxLookups
    /\ \E r \in {BuilderGetItem(bm_register, build_name, bm_objs, bm_env.factories)} :
          /\ bm_objs' = r.objs
          /\ bm_last' = [op |-> "getitem", name |-> build_name, raised |-> r.raised,
                         bdr |-> r.bdr, register |-> bm_register, objs |-> bm_objs,
                         dropped |-> FALSE, status |-> FALSE]
    /\ bm_prev' = bm_last
    /\ bm_ops' = bm_ops + 1
    /\ UNCHANGED <<bm_register, bm_env>>
    /\ UNCHANGED bmOthers

\* manager.merge(build_name, sources)
BmMerge(build_name, sources_given) ==
    /\ bm_ops < MaxLookups
    /\ \E r \in {ManagerMerge(bm_register, build_name, sources_given, bm_objs, bm_env)} :
          /\ bm_objs' = r.objs
          /\ bm_last' = [op |-> "merge", name |-> build_name, raised |-> r.raised,
                         bdr |-> r.bdr, register |-> bm_register, objs |-> bm_objs,
                         dropped |-> r.dropped, status |-> r.status]
    /\ bm_prev' = bm_last
    /\ bm_ops' = bm_ops + 1
    /\ UNCHANGED <<bm_register, bm_env>>
    /\ UNCHANGED bmOthers

BmNext ==
    \/ \E build_name \in BmBuildNames : BmRegisterBuilder(build_name)
    \/ \E build_name \in BmNames : BmLookup(build_name)
    \/ \E build_name \in BmNames : \E sources_given \in BOOLEAN :
          BmMerge(build_name, sources_given)


(***************************************************************************)
(* HubSSHServerSession.cancel  (utils/hub.py)                              *)
(***************************************************************************)

\* what dict.get hands back: the record, or nothing
Found(info) == <<info>>
Nothing == <<>>

CancelPop(jobs, jobnum) ==
    IF jobnum \in DOMAIN jobs
    THEN [result |-> Found(jobs[jobnum]),
          jobs |-> [num \in DOMAIN jobs \ {jobnum} |-> jobs[num]]]
    ELSE [result |-> Nothing, jobs |-> jobs]
\* cancel(jobnum): klass.running_jobs.get(jobnum)
Cancel(jobs, jobnum) ==
    IF jobnum \in DOMAIN jobs
    THEN [result |-> Found(jobs[jobnum]), jobs |-> jobs]
    ELSE [result |-> Nothing, jobs |-> jobs]

\* cancel(jobnum) is called from the console
ConCancel(jobnum) ==
    /\ \E r \in {Cancel(con_jobs, jobnum)} :
          /\ con_jobs' = r.jobs
          /\ con_last' = [s |-> "none", kind |-> "cancel", raised |-> FALSE,
                          before |-> <<>>, log |-> <<>>, polled |-> con_jobs,
                          report |-> <<jobnum>> \o r.result]
    /\ UNCHANGED <<con_script, con_pos, con_input, con_closed, con_breaks, con_cnt,
                   con_regs, con_stream, con_processed>>
    /\ UNCHANGED conOthers

\* one session on which two calls, or a chain of two, are typed
CancelInit ==
    /\ ConInit
    /\ con_script["s2"] = <<>>
    /\ con_script["s1"] \in {CallA \o Eol \o CallB \o Eol,
                             <<" ">> \o CallA \o Amp \o CallB \o Eol}


(***************************************************************************)
(* Merges of one build configuration by several builders                   *)
(* (register_status, store_stats, databuild/builder.py)                    *)
(***************************************************************************)

MaxMerges == 3      \* builders merging the same build configuration

OvlBuilders == 1..MaxMerges

\* the target name each builder generated for itself
TargetOf(b) == <<"target1", "target2", "target3", "target4", "target5">>[b]

OvlIdle ==
    /\ ovl_pc = [b \in OvlBuilders |-> "idle"]
    /\ ovl_start = [b \in OvlBuilders |-> 0]

OvlInit ==
    /\ OvlIdle
    /\ cfg_build \in {<<>>, <<OldEntry>>}
    /\ cfg_haskey = TRUE
    /\ cfg_origin = [i \in 1..Len(cfg_build) |-> 0]
    /\ cfg_starts = 0
    /\ now = 0

OvlUnchanged ==
    UNCHANGED <<mgrVars, resVars, andVars, trkVars, mVars, clnVars, synVars, pubVars,
                prpVars, conVars, regVars, bmVars, tgtVars>>

\* merge of builder b up to return job or raise: register_status("building",
\* transient=True, init=True, build=...), and register_status("failed", ...)
\* when that raised
OvlStart(b) ==
    /\ ovl_pc[b] = "idle"
    /\ LET r1 == RegisterStatus(cfg_build, cfg_haskey,
                                BuildInfo("building", TRUE, TargetOf(b), now + 1),
                                TRUE, ExtraOf("building", <<SrcA>>, <<>>), TRUE)
           r2 == RegisterStatus(r1.build, r1.haskey,
                                BuildInfo("failed", FALSE, TargetOf(b), now + 2),
                                TRUE, ExtraOf("failed", <<>>, <<>>), FALSE)
       IN IF r1.raised
          THEN /\ cfg_build' = r2.build
               /\ cfg_haskey' = r2.haskey
               /\ now' = now + 2
               /\ UNCHANGED <<cfg_origin, cfg_starts>>
               /\ ovl_pc' = [ovl_pc EXCEPT ![b] = "raised"]
               /\ UNCHANGED ovl_start
          ELSE /\ CfgAfter(r1)
               /\ ovl_pc' = [ovl_pc EXCEPT ![b] = "building"]
               /\ ovl_start' = [ovl_start EXCEPT ![b] = cfg_starts + 1]
    /\ OvlUnchanged

\* store_stats of builder b: register_status("success", build={stats, versions})
OvlStoreStats(b) ==
    /\ ovl_pc[b] = "building"
    /\ LET r == RegisterStatus(cfg_build, cfg_haskey,
                               BuildInfo("success", FALSE, TargetOf(b), now + 1),
                               TRUE, ExtraOf("success", <<>>, StatsKey(SrcA) :> b), FALSE)
       IN CfgAfter(r)
    /\ ovl_pc' = [ovl_pc EXCEPT ![b] = "success"]
    /\ UNCHANGED ovl_start
    /\ OvlUnchanged

OvlNext ==
    \E b \in OvlBuilders : OvlStart(b) \/ OvlStoreStats(b)


(***************************************************************************)
(* DataBuilder.merge and the name of the target collection                 *)
(* (merge, setup, databuild/builder.py)                                    *)
(***************************************************************************)

MaxMergeCalls == 2  \* merge calls on one builder

None == "None"
Generated == "b_generated"
TgtNames == {"X", "Y"}
Unprepared == "unprepared"

\* target_backend.set_target_name(explicit_name, build_name): the explicit name,
\* or a name generated from the build name when none is given
SetTargetName(explicit_name) ==
    IF explicit_name = None THEN Generated ELSE explicit_name

\* the target_backend property: a builder that is not prepared runs prepare(),
\* whose setup() names the target after self.target_name
TargetBackendName(name, attr) ==
    IF name = Unprepared THEN SetTargetName(attr) ELSE name

\* merge(sources, target_name) up to the dispatch of the units: drop() and
\* prepare() in the branch without sources, then the target_name given is set
\* on the builder and on the backend
MergeTarget(name, attr, sources_given, target_name) ==
    LET name0 == IF sources_given THEN name ELSE TargetBackendName(name, attr)
        dropped == IF sources_given THEN {} ELSE {name0}
        attr1 == IF target_name # None THEN target_name ELSE attr
        name1 == IF target_name # None THEN SetTargetName(target_name)
                 ELSE TargetBackendName(name0, attr1)
    IN [dropped |-> dropped, attr |-> attr1, name |-> name1]

\* the build configuration of the builder: its sources and its root sources;
\* every staging collection holds documents of the same _ids
TgtSources == {"a", "b"}
TgtRoot == {"a"}
TgtDocs == 2        \* documents of a staging collection, _ids 1..TgtDocs

\* what merge may get as sources: None, or some of the configured sources
TgtRequests ==
    {[given |-> FALSE, names |-> {}]}
        \cup {[given |-> TRUE, names |-> n] : n \in SUBSET TgtSources \ {{}}}

\* merge_sources: the sources of each phase of a job that makes units, in
\* order. A job with root sources makes their units first and those of the
\* other sources after the root units are done; asyncio.wait of an empty other
\* phase raises
Phases(sources) ==
    LET names == IF sources.given THEN sources.names ELSE TgtSources IN
    (IF names \cap TgtRoot # {} THEN <<names \cap TgtRoot>> ELSE <<>>)
        \o (IF names \ TgtRoot # {} THEN <<names \ TgtRoot>> ELSE <<>>)

\* merge_source: upsert = not roots or src_name in roots
TgtUpsert(src_name) == TgtRoot = {} \/ src_name \in TgtRoot

\* doc_feeder(step=batch_size, inbatch=True): the _ids of a staging collection
\* in batches of batch_size, the last one shorter; merge_source makes one unit
\* per batch
TgtBatch(k) == {id \in 1..TgtDocs : (id - 1) \div batch_size = k - 1}
TgtBatches == {k \in 1..TgtDocs : TgtBatch(k) # {}}

\* the calls whose job has not run yet
Pending(log) == {i \in DOMAIN log : ~log[i].started}

\* the target database: collection name -> its documents, _id -> the sources
\* whose fields the document carries
NoCols == <<>>
DropCols(cols, names) == [n \in DOMAIN cols \ names |-> cols[n]]
DocsOf(cols, dest_name) == IF dest_name \in DOMAIN cols THEN cols[dest_name] ELSE <<>>

\* merger_worker, DocMongoBackend.update(docs, upsert): the _ids of a unit that
\* are written into the collection dest_name. With upsert a document is
\* inserted when absent (which creates the collection); without it only the
\* documents that are there are updated
Writes(cols, dest_name, ids, upsert) ==
    IF upsert THEN ids ELSE ids \cap DOMAIN DocsOf(cols, dest_name)
WorkerUpdate(cols, dest_name, src_name, ids, upsert) ==
    LET docs == DocsOf(cols, dest_name)
        hit == Writes(cols, dest_name, ids, upsert)
        after == [id \in DOMAIN docs \cup hit |->
                     (IF id \in DOMAIN docs THEN docs[id] ELSE {})
                         \cup (IF id \in hit THEN {src_name} ELSE {})]
    IN IF hit = {} THEN cols
       ELSE [n \in DOMAIN cols \cup {dest_name} |->
                IF n = dest_name THEN after ELSE cols[n]]

TgtIdle ==
    /\ tgt_attr = None
    /\ tgt_name = Unprepared
    /\ tgt_cols = NoCols
    /\ tgt_calls = 0
    /\ tgt_log = <<>>

\* a builder constructed with or without a target_name, on a target database
\* that may hold the collections of earlier complete builds
TgtInit ==
    /\ tgt_attr \in TgtNames \cup {None}
    /\ tgt_name = Unprepared
    /\ \E held \in SUBSET TgtNames :
          tgt_cols = [n \in held |-> [id \in 1..TgtDocs |-> TgtSources]]
    /\ tgt_calls = 0
    /\ tgt_log = <<>>

\* builder.merge(sources, target_name) up to its return: the job is handed to
\* the event loop (ensure_future) and has not run yet
TgtMerge(sources, target_name) ==
    /\ tgt_calls < MaxMergeCalls
    /\ \E r \in {MergeTarget(tgt_name, tgt_attr, sources.given, target_name)} :
          /\ tgt_attr' = r.attr
          /\ tgt_name' = r.name
          /\ tgt_cols' = DropCols(tgt_cols, r.dropped)
          /\ tgt_log' = Append(tgt_log,
                               [sources_given |-> sources.given, target_name |-> target_name,
                                dropped |-> r.dropped, before |-> DOMAIN tgt_cols,
                                started |-> FALSE, phases |-> Phases(sources),
                                units |-> <<>>, written |-> {}])
    /\ tgt_calls' = tgt_calls + 1
    /\ UNCHANGED tgtOthers

\* the event loop runs the merge_source tasks of the next phase of job i: each
\* makes one unit per batch with partial(merger_worker, ...,
\* target_backend.target_name, ids, ...), which binds the name the target has
\* at that moment, and hands them to the executor. The tasks of a job are
\* scheduled by its first step, so jobs start in the order of their merge
\* calls; the second phase of a job starts when the units of its first are
\* done (asyncio.wait), whatever other jobs do
TgtDispatch(i) ==
    /\ i \in DOMAIN tgt_log
    /\ tgt_log[i].phases # <<>>
    /\ DOMAIN tgt_log[i].units = {}
    /\ ~tgt_log[i].started => \A j \in Pending(tgt_log) : i <= j
    /\ tgt_log' = [tgt_log EXCEPT ![i].started = TRUE,
                                  ![i].phases = Tail(@),
                                  ![i].units = [u \in Head(tgt_log[i].phases) \X TgtBatches |->
                                                   tgt_name]]
    /\ UNCHANGED <<tgt_attr, tgt_name, tgt_cols, tgt_calls>>
    /\ UNCHANGED tgtOthers

\* the executor runs one unit of job i, the batch k of a source, in any order
\* with the other units of the source, with those of other sources and jobs
\* and with later merge calls: merger_worker writes the documents of the batch
\* into the collection whose name the unit was given
TgtUnits(i, src_name, k) ==
    /\ i \in DOMAIN tgt_log
    /\ <<src_name, k>> \in DOMAIN tgt_log[i].units
    /\ LET dest_name == tgt_log[i].units[<<src_name, k>>]
           upsert == TgtUpsert(src_name)
           hit == Writes(tgt_cols, dest_name, TgtBatch(k), upsert)
       IN /\ tgt_cols' = WorkerUpdate(tgt_cols, dest_name, src_name, TgtBatch(k), upsert)
          /\ tgt_log' = [tgt_log EXCEPT
                           ![i].units = [u \in DOMAIN @ \ {<<src_name, k>>} |-> @[u]],
                           ![i].written = IF hit # {} THEN @ \cup {dest_name} ELSE @]
    /\ UNCHANGED <<tgt_attr, tgt_name, tgt_calls>>
    /\ UNCHANGED tgtOthers

TgtNext ==
    \/ \E sources \in TgtRequests, target_name \in TgtNames \cup {None} :
          TgtMerge(sources, target_name)
    \/ \E i \in 1..MaxMergeCalls : TgtDispatch(i)
    \/ \E i \in 1..MaxMergeCalls, src_name \in TgtSources, k \in TgtBatches :
          TgtUnits(i, src_name, k)

(***************************************************************************)
(* Specifications: one per component, the other components left idle       *)
(***************************************************************************)

RestIdle == ClnIdle /\ SynIdle /\ PubIdle /\ PrpIdle /\ ConIdle /\ RegIdle /\ BmIdle /\ OvlIdle /\ TgtIdle
OldIdle == MgrIdle /\ ResIdle /\ AndIdle /\ TrkIdle /\ CfgIdle /\ MergeIdle
ClnOthersIdle == OldIdle /\ SynIdle /\ PubIdle /\ PrpIdle /\ ConIdle /\ RegIdle /\ BmIdle /\ OvlIdle /\ TgtIdle
SynOthersIdle == OldIdle /\ ClnIdle /\ PubIdle /\ PrpIdle /\ ConIdle /\ RegIdle /\ BmIdle /\ OvlIdle /\ TgtIdle
PubOthersIdle == OldIdle /\ ClnIdle /\ SynIdle /\ PrpIdle /\ ConIdle /\ RegIdle /\ BmIdle /\ OvlIdle /\ TgtIdle
PrpOthersIdle == OldIdle /\ ClnIdle /\ SynIdle /\ PubIdle /\ ConIdle /\ RegIdle /\ BmIdle /\ OvlIdle /\ TgtIdle
ConOthersIdle == OldIdle /\ ClnIdle /\ SynIdle /\ PubIdle /\ PrpIdle /\ RegIdle /\ BmIdle /\ OvlIdle /\ TgtIdle
RegOthersIdle == OldIdle /\ ClnIdle /\ SynIdle /\ PubIdle /\ PrpIdle /\ ConIdle /\ BmIdle /\ OvlIdle /\ TgtIdle
BmOthersIdle == OldIdle /\ ClnIdle /\ SynIdle /\ PubIdle /\ PrpIdle /\ ConIdle /\ RegIdle /\ OvlIdle /\ TgtIdle
OvlOthersIdle == OldIdle /\ ClnIdle /\ SynIdle /\ PubIdle /\ PrpIdle /\ ConIdle /\ RegIdle /\ BmIdle /\ TgtIdle
TgtOthersIdle == OldIdle /\ ClnIdle /\ SynIdle /\ PubIdle /\ PrpIdle /\ ConIdle /\ RegIdle /\ BmIdle /\ OvlIdle

InitResolve == ResInit /\ MgrIdle /\ AndIdle /\ TrkIdle /\ CfgIdle /\ MergeIdle /\ RestIdle
NextResolve == ResResolve
SpecResolve == InitResolve /\ [][NextResolve]_vars

InitMgr == MgrInit /\ ResIdle /\ AndIdle /\ TrkIdle /\ CfgIdle /\ MergeIdle /\ RestIdle
NextMgr == MgrNext
SpecMgr == InitMgr /\ [][NextMgr]_vars

InitAnd == AndIdle /\ MgrIdle /\ ResIdle /\ TrkIdle /\ CfgIdle /\ MergeIdle /\ RestIdle
NextAnd == AndNext
SpecAnd == InitAnd /\ [][NextAnd]_vars

InitTrack == TrkIdle /\ MgrIdle /\ ResIdle /\ AndIdle /\ CfgIdle /\ MergeIdle /\ RestIdle
NextTrack == TrkNext
SpecTrack == InitTrack /\ [][NextTrack]_vars

InitHist == CfgInit /\ MgrIdle /\ ResIdle /\ AndIdle /\ TrkIdle /\ MergeIdle /\ RestIdle
NextHist == HistNext
SpecHist == InitHist /\ [][NextHist]_vars

InitMerge == MergeInit /\ MgrIdle /\ ResIdle /\ AndIdle /\ TrkIdle /\ RestIdle
NextMerge == MergeNext
SpecMerge == InitMerge /\ [][NextMerge]_vars

InitClean == ClnInit /\ ClnOthersIdle
NextClean == ClnClean
SpecClean == InitClean /\ [][NextClean]_vars

InitSync == SynInit /\ SynOthersIdle
NextSync == SynNext
SpecSync == InitSync /\ [][NextSync]_vars

InitPublish == PubInit /\ PubOthersIdle
NextPublish == PubNext
SpecPublish == InitPublish /\ [][NextPublish]_vars

InitPrepare == PrpInit /\ PrpOthersIdle
NextPrepare == PrpNext
SpecPrepare == InitPrepare /\ [][NextPrepare]_vars

InitConsole == ConInit /\ ConOthersIdle
NextConsole == ConNext
SpecConsole == InitConsole /\ [][NextConsole]_vars

InitRegister == RegInit /\ RegOthersIdle
NextRegister == RegRegisterSources
SpecRegister == InitRegister /\ [][NextRegister]_vars

InitManager == BmInit /\ BmOthersIdle
NextManager == BmNext
SpecManager == InitManager /\ [][NextManager]_vars

InitCancel == CancelInit /\ ConOthersIdle
NextCancel == ConNext \/ \E jobnum \in 1..(MaxJobCnt + 1) : ConCancel(jobnum)
SpecCancel == InitCancel /\ [][NextCancel]_vars

InitOverlap ==
    /\ OvlInit
    /\ MgrIdle /\ ResIdle /\ AndIdle /\ TrkIdle /\ MergeIdle
    /\ ClnIdle /\ SynIdle /\ PubIdle /\ PrpIdle /\ ConIdle /\ RegIdle /\ BmIdle
    /\ TgtIdle
NextOverlap == OvlNext
SpecOverlap == InitOverlap /\ [][NextOverlap]_vars

InitTarget == TgtInit /\ TgtOthersIdle
NextTarget == TgtNext
SpecTarget == InitTarget /\ [][NextTarget]_vars

(***************************************************************************)
(* Claims                                                                  *)
(***************************************************************************)

\* the functions invoked so far in chain c, in invocation order
AndInvoked(c) == [j \in DOMAIN and_calls[c] |-> and_calls[c][j].func]

AndSettledAll(c) ==
    /\ Len(and_calls[c]) = Len(and_funcs[c])
    /\ \A j \in DOMAIN and_calls[c] : and_calls[c][j].st = "ok" /\ and_calls[c][j].cbrun

\* a unit of a non-root source has been handed to the executor
NonRootDispatched ==
    \E u \in Units : u[1] \notin Range(m_root) /\ m_unit[u].st # "none"

\* every requested root source has dispatched all its units (or failed before
\* dispatching any) and none of them is still running
RootUnitsCompleted ==
    \A s \in Range(m_srcs) \cap Range(m_root) :
        /\ m_task[s] \in {"waiting", "done", "failed"}
        /\ \A u \in Units : u[1] = s => m_unit[u].st # "running"

\* C1: within one merge, no unit of a non-root source is dispatched before
\* every unit of every requested root source has completed, whatever the order
\* in which the units complete
C1_RootsDrainedFirst == NonRootDispatched => RootUnitsCompleted

C1_Witness ==
    /\ \E u \in Units : u[1] \notin Range(m_root) /\ m_unit[u].st = "running"
    /\ \E s \in Range(m_srcs) \cap Range(m_root) :
           /\ m_task[s] = "done"
           /\ \A u \in Units : u[1] = s => m_unit[u].st \in {"ok", "raised"}

\* C2: when an exception is raised at any step of a merge (status
\* registration, a per-source task, mapper lookup, the phase barrier, finalize,
\* post_merge), a "failed" status is registered for the build and no "success"
\* status is
C2_FailureRegistersFailed ==
    (m_pc \in {"stored", "raised"} /\ m_raised # {}) =>
        /\ "failed" \in Range(m_statuslog)
        /\ "success" \notin Range(m_statuslog)

\* a second merge has ended after a first one in which every unit returned
SecondMergeDone ==
    /\ m_pc = "stored" /\ m_run = 2
    /\ m_snap.set /\ m_snap.run = 1

\* C7: merging the same set of sources a second time into the same target
\* leaves the target with exactly the documents, field for field, the first
\* merge left, for every completion order of the worker units
C7_MergeTwiceSameAsOnce == SecondMergeDone => m_target = m_snap.target

\* C8: the upsert flag of every dispatched unit is true exactly when no root
\* source is configured or the unit's source is a root source; a merge of only
\* non-root sources under a configuration with root sources creates no
\* document in a target that holds none
C8_UpsertPolicy ==
    /\ \A u \in Units : m_unit[u].st # "none" =>
           (m_unit[u].upsert <=> (Len(m_root) = 0 \/ u[1] \in Range(m_root)))
    /\ (m_run > 0 /\ Len(m_root) > 0 /\ Range(m_srcs) \cap Range(m_root) = {})
           => DOMAIN m_target = {}

C8_Witness ==
    /\ Len(m_root) > 0 /\ Range(m_srcs) \cap Range(m_root) = {}
    /\ m_pc = "stored" /\ CleanRun
    /\ \E u \in Units : m_unit[u].st = "ok" /\ ~m_unit[u].upsert
    /\ DOMAIN m_target = {}

\* C3: once more than max_build_status builds have started, the history holds
\* exactly max_build_status entries: those of the most recently started builds,
\* in start order.
C3_HistoryTrimmed ==
    cfg_starts > max_build_status =>
        /\ Len(cfg_build) = max_build_status
        /\ cfg_origin = [i \in 1..max_build_status |-> cfg_starts - max_build_status + i]

\* C4: the functions of a chain are invoked in order and at most once each,
\* f(i+1) only after the handle of f(i) has settled without raising; once a
\* handle has settled with an error no later function is invoked.
C4_ChainOrder ==
    \A c \in Chains :
        /\ Len(and_calls[c]) <= Len(and_funcs[c])
        /\ AndInvoked(c) = SubSeq(and_funcs[c], 1, Len(and_calls[c]))
        /\ \A j \in DOMAIN and_calls[c] :
              /\ j > 1 => and_calls[c][j - 1].st = "ok"
              /\ and_calls[c][j].st = "err" => Len(and_calls[c]) = j

\* one chain of three has run to its end while another stopped at a failed link
C4_Witness ==
    \E c, d \in Chains :
        /\ Len(and_funcs[c]) = 3
        /\ AndSettledAll(c)
        /\ Len(and_funcs[d]) >= 2
        /\ Len(and_calls[d]) = 1
        /\ and_calls[d][1].st = "err"
        /\ and_calls[d][1].cbrun

\* C5: once every link of a fully successful chain has settled, the list the
\* outermost _and returned holds the n handles of the chain in invocation order.
C5_AllHandlesReturned ==
    \A c \in Chains :
        (and_funcs[c] # <<>> /\ AndSettledAll(c)) =>
            and_calls[c][1].all_res = [j \in 1..Len(and_funcs[c]) |-> and_calls[c][j].handle]

\* C6: while the wrapped function of a dispatched unit executes, its descriptor
\* is in the pending (run) directory; when the call returns the descriptor is
\* out of the pending directory and in the done directory with its duration
\* set, whether the function returned or raised.
C6_DescriptorLifecycle ==
    /\ [](\A j \in TrkJobs :
            trk_job[j].phase = "exec" =>
                /\ trk_job[j].fn \in DOMAIN trk_run
                /\ trk_run[trk_job[j].fn].job = j)
    /\ [][\A j \in TrkJobs :
            (trk_job[j].phase # "returned" /\ trk_job'[j].phase = "returned") =>
                /\ trk_job'[j].fn \notin DOMAIN trk_run'
                /\ trk_job'[j].fn \in DOMAIN trk_done'
                /\ trk_done'[trk_job'[j].fn].job = j
                /\ trk_done'[trk_job'[j].fn].duration = "set"]_vars

\* a unit whose function raised has returned while another unit executes
C6_Witness ==
    \E j, k \in TrkJobs :
        /\ trk_job[j].phase = "returned"
        /\ trk_job[j].outcome = "raise"
        /\ trk_job[j].fn \in DOMAIN trk_done
        /\ trk_done[trk_job[j].fn] = [job |-> j, id |-> <<trk_job[j].fn[1], trk_job[j].fn[2]>>,
                                      duration |-> "set"]
        /\ trk_job[k].phase = "exec"

\* whether the pattern src, taken as a whole, matches all of col
WholeNameMatch(src, col) ==
    \E i \in DOMAIN Compile(src) :
        MatchItems(<<[a |-> "^", star |-> FALSE]>> \o Compile(src)[i]
                       \o <<[a |-> "$", star |-> FALSE]>>, 1, col, 1)

ResGiven == IF res_sources.isstr THEN <<res_sources.str>> ELSE res_sources.list

\* C9: resolve_sources returns exactly the live collection names that one of
\* the given names or patterns matches over the whole name: no collection that
\* matches no pattern or only starts with a match, and no name that is not a
\* live collection.
C9_ResolveExact ==
    res_found.status = "ok" =>
        Range(res_found.found) =
            {col \in Range(res_cols) :
                \E i \in DOMAIN ResGiven : WholeNameMatch(ResGiven[i], col)}

\* the objects registered under main whose name is sub
MgrMatches(main, sub) ==
    IF main \in DOMAIN mgr_register
    THEN SelectSeq(mgr_register[main], LAMBDA src : src.name = sub)
    ELSE <<>>

MgrTwoLevel ==
    /\ mgr_result.status # "none"
    /\ mgr_query \notin DOMAIN mgr_register
    /\ Len(mgr_query) = 3
    /\ mgr_query[2] = "."

\* C10: a main.sub lookup returns the single matching object itself (not a
\* list) when exactly one registration under main is named sub, the list of all
\* of them when several match, and KeyError when none match or main is
\* unregistered.
C10_TwoLevelLookup ==
    MgrTwoLevel =>
        LET m == MgrMatches(<<mgr_query[1]>>, <<mgr_query[3]>>) IN
        /\ Len(m) = 0 => mgr_result.status = "KeyError"
        /\ Len(m) = 1 => mgr_result = [status |-> "ok", kind |-> "object", value |-> m]
        /\ Len(m) > 1 => mgr_result = [status |-> "ok", kind |-> "list", value |-> m]

\* the name starts with the text
StartsWith(s, text) == Len(s) >= Len(text) /\ SubSeq(s, 1, Len(text)) = text

\* the text <prefix>_<build_name>_<date>_ of the call, prefix and date optional
ClnText ==
    (IF cln_args.prefix # <<>> THEN cln_args.prefix \o <<"_">> ELSE <<>>)
        \o cln_args.build_name \o <<"_">>
        \o (IF cln_args.date.given /\ cln_args.date.str # <<>>
            THEN cln_args.date.str \o <<"_">> ELSE <<>>)

ClnDropped == Range(cln_cols) \ Range(cln_result.left)
ClnLiteral == \A i \in DOMAIN ClnText : ClnText[i] \notin {".", "*", "|"}

\* C11: clean_temp_collections never drops a collection whose name contains
\* "current", drops every collection whose name starts with
\* <prefix>_<build_name>_<date>_ and does not contain "current", and drops no
\* other collection
C11_CleanExact ==
    cln_result.status # "none" =>
        ClnDropped = {col \in Range(cln_cols) :
                         StartsWith(col, ClnText) /\ ~Contains(col, Current)}

\* C11 (amended): the same with <prefix>_<build_name>_<date>_ taken as a
\* regular expression matched at the start of the name (for parts free of
\* regular-expression operators: the names that start with the text); when the
\* text is no valid regular expression the call raises and drops nothing
C11_CleanRegex ==
    /\ cln_result.status # "none" =>
          \A col \in ClnDropped : ~Contains(col, Current)
    /\ cln_result.status = "ok" =>
          /\ ClnDropped = {col \in Range(cln_cols) :
                             /\ \E i \in DOMAIN Compile(ClnText) :
                                    MatchItems(Compile(ClnText)[i], 1, col, 1)
                             /\ ~Contains(col, Current)}
          /\ ClnLiteral =>
                ClnDropped = {col \in Range(cln_cols) :
                                 StartsWith(col, ClnText) /\ ~Contains(col, Current)}
    /\ cln_result.status = "re.error" => (ClnDropped = {} /\ ~ClnLiteral)

\* with a date and a prefix given, one collection was dropped while the one of
\* the same prefix and date named "current" was kept
C11_Witness ==
    /\ cln_result.status = "ok"
    /\ cln_args.build_name = <<"b">>
    /\ cln_args.date = [given |-> TRUE, str |-> <<"1">>]
    /\ <<"b", "_", "1", "_", "x">> \in ClnDropped
    /\ <<"b", "_", "1", "_">> \o Current \in Range(cln_result.left)

\* C12: after sync() the registered build names are exactly the build names
\* present in the configuration registry: a name registered earlier whose
\* configuration has since been removed is no longer registered
C12_SyncExact == syn_last = "sync" => DOMAIN syn_register = syn_confs

\* the list is in ascending str order without duplicates
PubSortedUnique(l) == \A i, j \in DOMAIN l : i < j => StrLess(l[i], l[j])

\* what the stored manifest holds, read as the JSON list it is
PubContent == JsonLoads(pub_manifest.text)

\* C13: starting from a missing or malformed manifest, after single-version
\* publishes the stored manifest is the sorted, duplicate-free array of all the
\* versions published; republishing a present version leaves it unchanged; the
\* publish of a list replaces it with the sorted, duplicate-free content of the
\* list
C13_ManifestSortedSet ==
    (pub_start \in {"missing", "malformed"} /\ pub_last.op # "none") =>
        /\ pub_last.raised = "none"
        /\ pub_manifest.exists
        /\ PubContent.kind = "list"
        /\ Hashable(PubContent.value)
        /\ PubSortedUnique(StrValues(PubContent.value))
        /\ Range(StrValues(PubContent.value)) = pub_published

\* three versions published out of order, one of them twice, "10" among them
C13_Witness ==
    /\ pub_start = "malformed"
    /\ pub_last.op = "one"
    /\ pub_last.before = pub_manifest
    /\ StrValues(PubContent.value) = <<<<"1">>, <<"1", "0">>, <<"9">>>>

\* C14: without an unprepare, over any sequence of property accesses and direct
\* prepare() calls each backend factory is invoked at most once, setup() and the
\* log setup run at most once and the build configuration is fetched at most
\* once
C14_PreparedOnce ==
    ~prp_unprepared =>
        /\ prp_bdr.calls.source_factory <= 1
        /\ prp_bdr.calls.target_factory <= 1
        /\ prp_bdr.calls.setup <= 1
        /\ prp_bdr.calls.setup_log <= 1
        /\ prp_bdr.calls.fetch <= 1

\* C15: unprepare() unsets logger, source_backend, target_backend and
\* build_config and returns a token holding their previous values; a following
\* prepare(token) restores exactly the values of the token, invoking no backend
\* factory, no setup() and no log setup
C15_UnprepareRestore ==
    /\ prp_last = "unprepare" =>
          /\ prp_bdr.st = PrpUnset
          /\ prp_token = [given |-> TRUE, state |-> prp_prev.st]
    /\ prp_last = "prepare(token)" =>
          /\ prp_bdr.st = prp_token.state
          /\ prp_bdr.calls = prp_prev.calls
          /\ prp_bdr.raised = "none"

\* a prepared builder was unprepared and then restored from its token
C15_Witness ==
    /\ prp_last = "prepare(token)"
    /\ prp_prev.st = PrpUnset
    /\ prp_bdr.st.logger # 0
    /\ prp_bdr.st.source_backend # 0
    /\ prp_bdr.st.target_backend # 0
    /\ prp_bdr.st.build_config # 0

\* C16: no two records tracked at the same time stem from the same typed
\* command: a complete line equal to the text typed for a job that is still
\* tracked (a plain command, a && chain or a call of a composite alias) is not
\* evaluated and registers nothing
C16_NoDuplicateTyped ==
    \A m \in DOMAIN con_jobs : \A n \in DOMAIN con_jobs :
        m # n => con_jobs[m].typed # con_jobs[n].typed

Completed(info) == "pending" \notin Range(info.jobs)
Raised(info) == "err" \in Range(info.jobs)

\* C17: at the end of a data_received call every tracked record whose handles
\* have all completed has been reported as finished (ERR with the errors when a
\* handle raised, else OK with the result of each handle) and is no longer
\* tracked, and every record with a pending handle has been reported as RUN
\* and is still tracked
C17_ReportAndRemove ==
    (con_last.kind # "none" /\ ~con_last.raised) =>
        /\ {con_last.report[i].num : i \in DOMAIN con_last.report} = DOMAIN con_last.polled
        /\ Len(con_last.report) = Cardinality(DOMAIN con_last.polled)
        /\ \A i \in DOMAIN con_last.report :
             LET l == con_last.report[i]
                 info == con_last.polled[l.num]
             IN IF Completed(info)
                THEN /\ l.num \notin DOMAIN con_jobs
                     /\ l.kind = (IF Raised(info) THEN "ERR" ELSE "OK")
                     /\ l.outputs = (IF Raised(info)
                                     THEN SelectSeq(info.jobs, LAMBDA h : h = "err")
                                     ELSE info.jobs)
                ELSE /\ l.num \in DOMAIN con_jobs
                     /\ l.kind = "RUN"

\* one call reported a failed job, a finished chain of two handles and a job
\* that is still running
C17_Witness ==
    /\ ~con_last.raised
    /\ \E i \in DOMAIN con_last.report : con_last.report[i].kind = "ERR"
    /\ \E i \in DOMAIN con_last.report :
          con_last.report[i].kind = "OK" /\ Len(con_last.report[i].outputs) = 2
    /\ \E i \in DOMAIN con_last.report : con_last.report[i].kind = "RUN"

\* C18: job ids come from one counter for all sessions that starts at 1 and
\* grows by one per registered record: every tracked id is below the counter,
\* ids strictly increase in registration order and none is used twice
C18_JobIds ==
    /\ con_cnt = Len(con_regs) + 1
    /\ con_regs # <<>> => con_regs[1] = 1
    /\ \A i \in DOMAIN con_regs : \A j \in DOMAIN con_regs :
          i < j => con_regs[i] < con_regs[j]
    /\ \A num \in DOMAIN con_jobs : num < con_cnt /\ num \in Range(con_regs)

\* three records were registered, the first is finished and removed, the last
\* is tracked
C18_Witness ==
    /\ Len(con_regs) = 3
    /\ 1 \notin DOMAIN con_jobs
    /\ 3 \in DOMAIN con_jobs

\* the text after the last line delimiter
AfterLastEol(stream) ==
    LET eols == {i \in DOMAIN stream : stream[i] = "\n"} IN
    IF eols = {} THEN stream ELSE SubSeq(stream, SetMax(eols) + 1, Len(stream))

\* the lines one data_received call processes when it gets the whole stream
OneChunk(stream) ==
    LET log == DataReceived(<<>>, stream, NoRecords, 1).log IN
    [i \in DOMAIN log |-> log[i].raw]

\* C19: however the stream is cut into chunks, a session processes the same
\* non-empty complete lines, each once, as when the stream comes in one chunk,
\* and keeps the text after the last delimiter for the next chunk; a break
\* makes a line of what has been typed so far
C19_ChunkedInput ==
    /\ \A s \in Sessions :
          /\ con_processed[s] = OneChunk(con_stream[s])
          /\ ~con_closed[s] => con_input[s] = AfterLastEol(con_stream[s])
    /\ (con_last.kind = "break" /\ ~con_last.raised) =>
          /\ con_input[con_last.s] = <<>>
          /\ con_last.before # <<>> =>
                /\ con_last.log # <<>>
                /\ con_last.log[Len(con_last.log)].raw = con_last.before

\* a line that came in two chunks was processed together with the line after
\* it, in a session that had a break before
C19_Witness ==
    /\ con_last.kind = "data"
    /\ ~con_last.raised
    /\ con_last.before # <<>>
    /\ Len(con_last.log) >= 2
    /\ Len(con_stream[con_last.s]) > con_pos[con_last.s]

\* C20: a line with && and fewer than two non-empty operands gets the user
\* error and nothing is evaluated; with two or more operands it is rewritten
\* into one _and(...) expression with one partial per operand, which is
\* evaluated
C20_ChainRewrite ==
    \A i \in DOMAIN con_last.log :
        LET e == con_last.log[i] IN
        e.amp =>
            IF Len(e.operands) < 2
            THEN e.outcome = "usererror" /\ ~e.ran
            ELSE /\ e.ran
                 /\ StartsWith(e.cmdline, AndOpen)
                 /\ Len(SplitStr(e.cmdline, PartialOpen)) = Len(e.operands) + 1

\* the names a sources list refers to, at the top level or inside a group
RegRefs(sources) ==
    UNION {IF sources[i].kind = "name" THEN {sources[i].name} ELSE Range(sources[i].subs)
           : i \in DOMAIN sources}

\* the classes of a name that can be imported
RegClassesOf(n) ==
    IF <<n>> \in DOMAIN RegModules THEN RegModules[<<n>>]
    ELSE IF <<default_src_path, n>> \in DOMAIN RegModules
         THEN RegModules[<<default_src_path, n>>]
    ELSE {}

\* C21: register_sources empties the registry and then registers the classes of
\* every reference of the list that can be imported, at the top level or in a
\* group, whatever other references fail as not found
C21_EveryImportableRegistered ==
    reg_done => reg_register = UNION {RegClassesOf(n) : n \in RegRefs(reg_sources)}

\* two successive lookups of one registered build name call the stored
\* factory twice and give two distinct builders whose backend objects were made
\* separately; a lookup leaves the registry as it was
C22_LookupMakesNew ==
    (/\ bm_last.op = "getitem" /\ bm_prev.op = "getitem"
        /\ bm_last.name = bm_prev.name
        /\ bm_last.raised = "none" /\ bm_prev.raised = "none") =>
          /\ bm_last.bdr.id # bm_prev.bdr.id
          /\ bm_last.bdr.id > bm_last.objs
          /\ bm_prev.bdr.id > bm_prev.objs
          /\ bm_env.factories =>
                /\ bm_last.bdr.source_backend # bm_prev.bdr.source_backend
                /\ bm_last.bdr.target_backend # bm_prev.bdr.target_backend
                /\ bm_last.bdr.source_backend > bm_last.objs
                /\ bm_last.bdr.target_backend > bm_last.objs

\* C22: a lookup of a registered build name makes a new builder with
\* separately made backends each time, and leaves the registry unchanged
C22_DistinctBuilders ==
    /\ []C22_LookupMakesNew
    /\ [][(bm_ops' # bm_ops /\ bm_last'.op = "getitem") =>
            (bm_register' = bm_register /\ bm_last'.register = bm_register)]_vars

\* the same registered name was looked up twice in a row, by a manager that
\* has backend factories
C22_Witness ==
    /\ bm_last.op = "getitem" /\ bm_prev.op = "getitem"
    /\ bm_last.name = bm_prev.name
    /\ bm_last.raised = "none" /\ bm_prev.raised = "none"
    /\ bm_env.factories

\* C23: BuilderManager.merge raises the build-not-found BuilderException when
\* the name is unregistered, and then no builder is made, no status is written
\* and no target is dropped; and it raises that error only when the name is
\* unregistered
C23_NotFoundExactly ==
    bm_last.op = "merge" =>
        /\ bm_last.name \notin DOMAIN bm_last.register =>
              /\ bm_last.raised = "BuilderException: No such builder"
              /\ bm_last.bdr = BmNoBuilder
              /\ ~bm_last.dropped /\ ~bm_last.status
        /\ bm_last.raised = "BuilderException: No such builder" =>
              bm_last.name \notin DOMAIN bm_last.register

\* a step that is a call of cancel
CancelStep == con_last'.kind = "cancel" /\ con_last' # con_last

\* C24: cancel(jobnum) hands back the tracked record of that number, or
\* nothing, and leaves the table of running jobs, the counter and the states of
\* the handles as they were
C24_CancelFrame ==
    [][CancelStep =>
         /\ con_jobs' = con_jobs
         /\ con_cnt' = con_cnt
         /\ LET jobnum == con_last'.report[1] IN
            Tail(con_last'.report) = IF jobnum \in DOMAIN con_jobs
                                     THEN <<con_jobs[jobnum]>> ELSE <<>>]_vars

\* cancel was called on a tracked record one of whose handles is still pending
C24_Witness ==
    /\ con_last.kind = "cancel"
    /\ Len(con_last.report) = 2
    /\ \E i \in DOMAIN con_last.report[2].jobs : con_last.report[2].jobs[i] = "pending"
    /\ con_jobs = con_last.polled

\* C25: a register_status call flagged as initialization appends exactly one
\* entry to the history and leaves the entries that were there unchanged, apart
\* from the eviction of the oldest, whatever the history was; a call that is
\* not an initialization and carries build data changes only the last entry
\* and appends nothing
C25_InitAppendsOne ==
    [][\A status \in {"building", "success", "failed"}, init, hasExtra \in BOOLEAN :
          HistRegister(status, status = "building", init, hasExtra) =>
             /\ init =>
                   /\ Len(cfg_build') >= 1
                   /\ \E k \in 0..Len(cfg_build) :
                         SubSeq(cfg_build', 1, Len(cfg_build') - 1)
                             = SubSeq(cfg_build, k + 1, Len(cfg_build))
             /\ (~init /\ hasExtra) =>
                   /\ Len(cfg_build') = Len(cfg_build)
                   /\ \A i \in 1..(Len(cfg_build) - 1) : cfg_build'[i] = cfg_build[i]]_vars

\* the steps a merge ends with once its task has returned and its callback ran
SuccessTail == <<"finalize", "post_merge", "target_post_merge", "src_versions", "success">>

EndsWith(seq, tail) ==
    /\ Len(seq) >= Len(tail)
    /\ SubSeq(seq, Len(seq) - Len(tail) + 1, Len(seq)) = tail

\* every task and unit of the requested sources is over
UnitsComplete ==
    /\ \A s \in Range(m_srcs) : m_task[s] \in {"done", "failed"}
    /\ \A u \in Units : m_unit[u].st # "running"

\* a merge all of whose units returned ends with finalize, post_merge(), the
\* target's post_merge, the source versions and the "success" status with the
\* stats of every requested source
CleanRunOrder ==
    (CleanRun /\ m_pc = "stored") =>
        /\ EndsWith(m_steps, SuccessTail)
        /\ "stats" \in DOMAIN cfg_build[Len(cfg_build)]
        /\ cfg_build[Len(cfg_build)]["stats"] = m_stats
        /\ DOMAIN m_stats = {StatsKey(s) : s \in Range(m_srcs)}
        /\ "src_versions" \in DOMAIN cfg_build[Len(cfg_build)]

\* C26: the units of both phases are over before the target is finalized, then
\* post_merge() runs, then the target's post_merge, then the source versions
\* are read, then "success" is registered with the stats and the versions; the
\* "success" status is never registered before finalize has run
C26_SuccessAfterFinalize ==
    /\ ("finalize" \in Range(m_steps) /\ m_pc # "scheduled") => UnitsComplete
    /\ CleanRunOrder
    /\ "success" \in Range(m_steps) => EndsWith(m_steps, SuccessTail)

\* C27: a merge without sources drops and prepares the target before the
\* "building" status is registered and before any unit is dispatched, and merges
\* the whole configured source list; a merge with an explicit source, a string
\* or a list, neither drops nor prepares the target, and the documents that
\* were in the target are kept
C27_Normalized ==
    /\ (m_req.kind = "none" /\ m_run > 0) =>
          /\ Len(m_steps) >= 2 /\ SubSeq(m_steps, 1, 2) = <<"drop", "prepare">>
          /\ "building" \in Range(m_steps) => m_steps[3] = "building"
          /\ (\E u \in Units : m_unit[u].st # "none") =>
                (Len(m_steps) >= 3 /\ m_steps[3] = "building")
          /\ m_srcs = CfgSources
    /\ (m_req.kind # "none") =>
          /\ "drop" \notin Range(m_steps)
          /\ "prepare" \notin Range(m_steps)

\* C27 over whole runs: what is said above at every state, and a merge call
\* empties the target exactly when no sources were given
C27_DropOrKeep ==
    /\ []C27_Normalized
    /\ [][m_run' = m_run + 1 =>
            m_target' = IF m_req.kind = "none" THEN <<>> ELSE m_target]_vars

\* a second merge with an explicit source has been called on a target that
\* holds the documents of the first
C27_Witness ==
    /\ m_req.kind = "str" /\ m_run = 2 /\ m_pc = "scheduled"
    /\ DOMAIN m_target # {}

\* a second merge without sources has units running on a target that was
\* emptied again
C27_WitnessDropped ==
    /\ m_req.kind = "none" /\ m_run = 2
    /\ \E u \in Units : m_unit[u].st = "running"
    /\ m_steps = <<"drop", "prepare", "building">>

RECURSIVE SumOver(_, _)
SumOver(set, f) ==
    IF set = {} THEN 0
    ELSE LET x == CHOOSE y \in set : TRUE IN f[x] + SumOver(set \ {x}, f)

\* the counts the workers of a source returned; a worker that raised returned
\* none
ReturnedCounts(s) ==
    SumOver({u \in Units : u[1] = s /\ m_unit[u].st = "ok"},
            [u \in Units |-> m_unit[u].cnt])

\* C28: the total_<source> of a merged source is the sum of the counts its
\* workers returned, a worker that raised adding nothing, whatever the order in
\* which the batches completed
C28_TotalIsSumOfCounts ==
    \A s \in Sources :
        (m_task[s] = "done" /\ StatsKey(s) \in DOMAIN m_stats) =>
            m_stats[StatsKey(s)] = ReturnedCounts(s)

\* the handle of unit j has completed
HandleDone(j) == trk_job[j].phase = "returned"

\* C29: a handle given by defer_to_process or defer_to_thread never completes
\* with an exception: when the wrapped function raises, the handle resolves
\* with None, which is also what a function that returned None gives
C29_HandleNeverRaises ==
    /\ WrapperResults("raise") = WrapperResults("none")
    /\ \A j \in TrkJobs :
          HandleDone(j) =>
              /\ trk_job[j].result # "exception"
              /\ trk_job[j].outcome = "raise" => trk_job[j].result = "None"

\* C29, with the exceptions that are no Exception told apart: when the wrapped
\* function raises an Exception the handle resolves with None, as it does for
\* a function that returned None; the handle completes with an exception
\* exactly when the function raised one that except Exception does not catch
C29_OnlyUncaughtRaises ==
    /\ WrapperResults("raise") = WrapperResults("none")
    /\ \A j \in TrkJobs :
          HandleDone(j) =>
              /\ trk_job[j].outcome = "raise" => trk_job[j].result = "None"
              /\ trk_job[j].result = "exception" <=> trk_job[j].outcome = "exit"

\* on each pool a handle has completed for a function that raised an
\* Exception, and one for a function that raised SystemExit
C29_Witness ==
    \E j, k, l \in TrkJobs :
        /\ HandleDone(j) /\ trk_job[j].outcome = "raise" /\ trk_job[j].ptype = "process"
        /\ HandleDone(k) /\ trk_job[k].outcome = "raise" /\ trk_job[k].ptype = "thread"
        /\ HandleDone(l) /\ trk_job[l].outcome = "exit" /\ trk_job[l].result = "exception"

\* the merge_sources task has ended, every unit it dispatched returned, and
\* neither the target's finalize nor the post_merge hook raised
TaskEndedUnitsReturned ==
    /\ m_pc \in {"job_done", "job_failed"}
    /\ \A u \in Units : m_unit[u].st \in {"none", "ok"}
    /\ m_raised \cap {"finalize", "post_merge"} = {}

\* C30: whatever the requested sources, with or without root sources among
\* them, once every dispatched unit has completed merge_sources ends without
\* raising, having finalized the target and called post_merge()
C30_EndsAfterFinalize ==
    TaskEndedUnitsReturned =>
        /\ m_pc = "job_done"
        /\ "finalize" \in Range(m_steps)
        /\ "post_merge" \in Range(m_steps)

\* the lines of the last status report that say finished
FinishedLines == {i \in DOMAIN con_last.report : con_last.report[i].kind # "RUN"}

\* C31: the record of a chain is not reported as finished while a later link is
\* still running or still to be invoked: its finished report comes after the
\* handle of the last link has completed and, for a chain all of whose links
\* succeeded, holds the outcome of every link
C31_ChainReportedWhole ==
    (con_last.kind \in {"data", "break"} /\ ~con_last.raised) =>
        \A i \in FinishedLines :
            LET l == con_last.report[i]
                info == con_last.polled[l.num]
            IN /\ ~info.more
               /\ (Len(ChainedJobs(info.cmd)) > 1 /\ l.kind = "OK") =>
                     Len(l.outputs) = Len(ChainedJobs(info.cmd))

\* a step in which a session received data or a break and the call returned
ReceiveStep == con_stream' # con_stream /\ ~con_last'.raised

\* C32: with sessions sharing the table of running jobs, the finished status of
\* a tracked job is written once: by the first call of any session that
\* processes input after the handles of the job have completed, which removes
\* the job; ids are not used again, so that no session reports it another time
C32_ReportedOnce ==
    /\ [](\A i \in FinishedLines : con_last.report[i].num \notin DOMAIN con_jobs)
    /\ [](\A num \in DOMAIN con_jobs : num < con_cnt)
    /\ [][ReceiveStep =>
            /\ \A num \in DOMAIN con_jobs :
                  Completed(con_jobs[num]) =>
                      /\ num \notin DOMAIN con_jobs'
                      /\ Cardinality({i \in DOMAIN con_last'.report :
                                         /\ con_last'.report[i].num = num
                                         /\ con_last'.report[i].kind # "RUN"}) = 1
            /\ \A i \in DOMAIN con_last'.report :
                  \/ con_last'.report[i].num \in DOMAIN con_jobs
                  \/ con_last'.report[i].num >= con_cnt]_vars
    /\ [][\A num \in DOMAIN con_jobs' \ DOMAIN con_jobs : num >= con_cnt]_vars

\* a session that has typed nothing received a break and wrote the finished
\* status of a job another session had submitted
C32_Witness ==
    /\ con_last.s = "s2" /\ con_last.kind = "break" /\ con_pos["s2"] = 0
    /\ con_pos["s1"] > 0
    /\ FinishedLines # {}
    /\ con_jobs = NoRecords

\* the positions of the history that a step changed
ChangedEntries ==
    {i \in DOMAIN cfg_build' :
        i \notin DOMAIN cfg_build \/ cfg_build'[i] # cfg_build[i]}

\* C33: when merges of one build configuration overlap, the terminal status of
\* each merge is written into the history entry that this merge appended when it
\* started, and never over the entry of another merge
C33_OwnEntryOnly ==
    [][\A b \in OvlBuilders :
          (ovl_pc[b] = "building" /\ ovl_pc'[b] = "success") =>
              /\ \A i \in ChangedEntries : cfg_origin'[i] = ovl_start[b]
              /\ \E i \in DOMAIN cfg_build' :
                    /\ cfg_origin'[i] = ovl_start[b]
                    /\ cfg_build'[i]["status"] = "success"
                    /\ cfg_build'[i]["target_name"] = TargetOf(b)]_vars

\* C34: a merge without sources and with a target_name drops and prepares the
\* collection of that name, which is also the one its units write into, and
\* drops no other collection of the target
C34_DropsNamedTarget ==
    \A i \in DOMAIN tgt_log :
        (~tgt_log[i].sources_given /\ tgt_log[i].target_name # None) =>
            /\ tgt_log[i].dropped = {tgt_log[i].target_name}
            /\ tgt_log[i].written \subseteq {tgt_log[i].target_name}

====
